---- MODULE Spec2Model ----
(***************************************************************************)
(* A state-machine model of the GGW-World tick engine (src/src/lib.rs and  *)
(* src/src/interior.rs).                                                   *)
(*                                                                         *)
(* Number representation.  The program computes in f32/f64; the model      *)
(* computes in fixed point over the integers:                              *)
(*   time      1 unit = 1 ms            (dt, sim_time, accumulator)        *)
(*   gas mass  1 unit = 1e-7 kg         (tile gas, tank gas, reactor fuel) *)
(*   power     1 unit = 0.05 kW                                            *)
(*   needs     1 unit = 1/172800000     (hunger, thirst, rest in [0,1])    *)
(* A product with a fractional factor is rounded to the unit (toward       *)
(* zero), where the program rounds to the nearest float.                   *)
(***************************************************************************)
EXTENDS Integers, Sequences, FiniteSets, TLC

VARIABLES
    config,     \* World.config (GameConfig): the fields the simulation reads
    interior,   \* World.interior (InteriorWorld): ship, pawn, command_queue,
                \* atmos_accumulator
    mu,         \* World.mu
    sim_time,   \* World.sim_time
    bodies,     \* World.bodies
    next_id,    \* World.next_id
    events,     \* the Vec<CollisionEvent> the last detect_collisions returned
    last_op,    \* the operation that led to this state, with its arguments
    prev,       \* interior, bodies, sim_time and next_id before that operation
    tick_log,   \* the calls InteriorWorld::step made in that operation, in order
    origin,     \* interior after the last step that applied a command
    elapsed,    \* the sum of dt over the steps taken since origin
    count,      \* the operations so far, by kind (they bound the run)
    server      \* run_tcp_server: its channel, clients and tick-loop position

vars == <<config, interior, mu, sim_time, bodies, next_id, events, last_op, prev,
          tick_log, origin, elapsed, count, server>>

(***************************************************************************)
(* Arithmetic helpers                                                      *)
(***************************************************************************)
Min(a, b) == IF a <= b THEN a ELSE b

Max(a, b) == IF a >= b THEN a ELSE b

Abs(a) == IF a >= 0 THEN a ELSE -a

\* floor(x * num / den) for x >= 0, computed without leaving 32 bits
MulDivNat(x, num, den) == (x \div den) * num + ((x % den) * num) \div den

\* x * num / den rounded toward zero (sign-symmetric, like float rounding)
MulDiv(x, num, den) ==
    IF x >= 0 THEN MulDivNat(x, num, den) ELSE -MulDivNat(-x, num, den)

(***************************************************************************)
(* Program constants (interior.rs:8-17), in model units                    *)
(***************************************************************************)
\* ATMOS_DIFFUSION_COEFF = 0.4 per second = 4 ten-thousandths per ms
ATMOS_DIFFUSION_COEFF == 4

\* ATMOS_DIFFUSION_MAX_FRACTION = 0.5 = 5000 ten-thousandths
ATMOS_DIFFUSION_MAX_FRACTION == 5000

\* the denominator of the diffusion factor (ten-thousandths)
FactorDen == 10000

\* O2_CONSUMPTION_KG_PER_SEC = 0.0003 kg/s = 3 mass units per ms
O2_CONSUMPTION_KG_PER_SEC == 3

\* CO2_PRODUCTION_KG_PER_SEC = 0.0003 kg/s = 3 mass units per ms
CO2_PRODUCTION_KG_PER_SEC == 3

\* the 1e-6 kg threshold of clamp_non_negative = 10 mass units
MassEpsilon == 10

\* f32::EPSILON (1.19e-7 kg) in set_tile_type: the largest whole number of mass
\* units (1e-7 kg) that is <= f32::EPSILON
F32Epsilon == 1

(***************************************************************************)
(* TileType, GasType                                                       *)
(***************************************************************************)
\* one unit of food (food_units: f32), counted in halves
FoodOne == 2

TileTypes == {"Empty", "Floor", "Wall", "Bed", "DoorClosed", "DoorOpen"}

GasTypes == {"O2", "N2", "CO2", "Xenon"}

\* ShipInterior::tile_supports_atmos
tile_supports_atmos(tile_type) ==
    tile_type \in {"Floor", "Bed", "DoorOpen", "DoorClosed"}

\* ShipInterior::idx
idx(x, y, width) == y * width + x

(***************************************************************************)
(* TileAtmosphere                                                          *)
(***************************************************************************)
\* TileAtmosphere::vacuum
vacuum(temp_c) == [o2_kg |-> 0, n2_kg |-> 0, co2_kg |-> 0, temp_c |-> temp_c]

\* TileAtmosphere::with_standard_air
with_standard_air(cfg) ==
    [o2_kg |-> cfg.default_o2_kg, n2_kg |-> cfg.default_n2_kg,
     co2_kg |-> cfg.default_co2_kg, temp_c |-> cfg.baseline_temp_c]

\* TileAtmosphere::total_mass
total_mass(cell) == cell.o2_kg + cell.n2_kg + cell.co2_kg

\* TileAtmosphere::add_gas
add_gas(cell, gas, mass) ==
    IF mass <= 0 THEN cell
    ELSE CASE gas = "O2" -> [cell EXCEPT !.o2_kg = @ + mass]
           [] gas = "N2" -> [cell EXCEPT !.n2_kg = @ + mass]
           [] gas = "CO2" -> [cell EXCEPT !.co2_kg = @ + mass]
           [] OTHER -> cell

\* a clamp that raises negative masses to zero and leaves a trace in place
ClampKeepsTrace(cell) ==
    [cell EXCEPT !.o2_kg = Max(@, 0), !.n2_kg = Max(@, 0), !.co2_kg = Max(@, 0)]

\* TileAtmosphere::clamp_non_negative
clamp_non_negative(cell) ==
    LET c == [cell EXCEPT !.o2_kg = Max(@, 0), !.n2_kg = Max(@, 0),
                          !.co2_kg = Max(@, 0)]
    IN IF total_mass(c) < MassEpsilon
       THEN [c EXCEPT !.o2_kg = 0, !.n2_kg = 0, !.co2_kg = 0]
       ELSE c

(***************************************************************************)
(* GameConfig (config.rs): the fields the simulation reads                 *)
(***************************************************************************)
\* GameConfig::default, in model units
DefaultConfig ==
    [tick_interval_s |-> 250,          \* 0.25 s
     baseline_temp_c |-> 20,
     default_o2_kg |-> 5585000,        \* 0.5585 kg
     default_n2_kg |-> 18393000,       \* 1.8393 kg
     default_co2_kg |-> 15000,         \* 0.0015 kg
     dispenser_flow_kg_per_s |-> 200,  \* 0.02 kg/s = 200 units per ms
     dispenser_gas_type |-> "O2",
     dispenser_idle_power_kw |-> 5,    \* 0.25 kW
     nav_station_idle_power_kw |-> 30, \* 1.5 kW
     ship_computer_idle_power_kw |-> 50,
     transponder_idle_power_kw |-> 100,
     light_idle_power_kw |-> 2]

(***************************************************************************)
(* ShipInterior                                                            *)
(***************************************************************************)
\* the tile grid built by new_test_layout (interior.rs:462-484)
LayoutTiles(width, height) ==
    [i \in 0..(width * height - 1) |->
        LET x == i % width
            y == i \div width
        IN IF (x = 2 \/ x = 3) /\ y = 2 THEN "Bed"
           ELSE IF x = width \div 2 /\ y = height - 1 THEN "DoorOpen"
           ELSE IF x = 0 \/ x = width - 1 \/ y = 0 \/ y = height - 1 THEN "Wall"
           ELSE "Floor"]

\* the device list built by new_test_layout (interior.rs:533-693)
LayoutDevices(cfg, width, height) ==
    << [id |-> 1, device_type |-> "ReactorUranium", x |-> 5, y |-> 2, w |-> 3, h |-> 3,
        power_kw |-> 0, online |-> TRUE,
        data |-> [kind |-> "Reactor", fuel_kg |-> 1000000000, max_fuel_kg |-> 1000000000,
                  fuel_burn_rate_kg_per_s |-> 5, power_output_kw |-> 10000,
                  online |-> TRUE]],
       [id |-> 2, device_type |-> "Tank", x |-> 3, y |-> 4, w |-> 1, h |-> 1,
        power_kw |-> 0, online |-> TRUE,
        data |-> [kind |-> "Tank", capacity_kg |-> 2000000000, o2_kg |-> 800000000,
                  n2_kg |-> 1000000000, co2_kg |-> 50000000, xenon_kg |-> 100000000]],
       [id |-> 3, device_type |-> "Dispenser", x |-> 4, y |-> 4, w |-> 1, h |-> 1,
        power_kw |-> cfg.dispenser_idle_power_kw, online |-> TRUE,
        data |-> [kind |-> "Dispenser", active |-> TRUE,
                  rate_kg_per_s |-> cfg.dispenser_flow_kg_per_s,
                  gas_type |-> cfg.dispenser_gas_type, connected_tank_id |-> 2]],
       [id |-> 4, device_type |-> "Light", x |-> 2, y |-> 5, w |-> 1, h |-> 1,
        power_kw |-> cfg.light_idle_power_kw, online |-> TRUE,
        data |-> [kind |-> "Light", online |-> TRUE]],
       [id |-> 5, device_type |-> "Transponder", x |-> 8, y |-> 1, w |-> 2, h |-> 1,
        power_kw |-> cfg.transponder_idle_power_kw, online |-> TRUE,
        data |-> [kind |-> "Transponder", online |-> TRUE]],
       [id |-> 6, device_type |-> "NavStation", x |-> 8, y |-> 3, w |-> 2, h |-> 1,
        power_kw |-> cfg.nav_station_idle_power_kw, online |-> TRUE,
        data |-> [kind |-> "NavStation", online |-> TRUE]],
       [id |-> 7, device_type |-> "ShipComputer", x |-> 8, y |-> 5, w |-> 2, h |-> 1,
        power_kw |-> cfg.ship_computer_idle_power_kw, online |-> TRUE,
        data |-> [kind |-> "ShipComputer", online |-> TRUE]],
       [id |-> 8, device_type |-> "BedDevice", x |-> 2, y |-> 2, w |-> 2, h |-> 1,
        power_kw |-> 0, online |-> TRUE,
        data |-> [kind |-> "BedDevice"]],
       [id |-> 9, device_type |-> "DoorDevice", x |-> width \div 2, y |-> height - 1,
        w |-> 1, h |-> 1, power_kw |-> 0, online |-> TRUE,
        data |-> [kind |-> "DoorDevice", open |-> TRUE]],
       [id |-> 10, device_type |-> "FoodGenerator", x |-> 4, y |-> 2, w |-> 1, h |-> 1,
        power_kw |-> 60, online |-> TRUE,
        data |-> [kind |-> "FoodGenerator", food_units |-> 5 * FoodOne,
                 max_food_units |-> 5 * FoodOne,
                  online |-> TRUE]] >>

\* ShipInterior::is_hull_tile
is_hull_tile(tile_type) == tile_type \in {"Wall", "DoorClosed", "DoorOpen"}

\* neighbor_is_hull of rebuild_hull_shape (interior.rs:866-873)
NeighborIsHull(ship, nx, ny) ==
    /\ nx >= 0 /\ ny >= 0 /\ nx < ship.width /\ ny < ship.height
    /\ is_hull_tile(ship.tiles[idx(nx, ny, ship.width)])

\* the edges that the tile at index i pushes, in the order of `neighbors`:
\* up, right, down, left; an edge is <<start, end>> (interior.rs:850-878)
TileEdges(ship, i) ==
    LET x == i % ship.width
        y == i \div ship.width
        neighbors == << <<<<0, -1>>, <<x, y>>, <<x + 1, y>>>>,
                        <<<<1, 0>>, <<x + 1, y>>, <<x + 1, y + 1>>>>,
                        <<<<0, 1>>, <<x + 1, y + 1>>, <<x, y + 1>>>>,
                        <<<<-1, 0>>, <<x, y + 1>>, <<x, y>>>> >>
        Open(n) == ~NeighborIsHull(ship, x + n[1][1], y + n[1][2])
        kept == SelectSeq(neighbors, Open)
    IN IF is_hull_tile(ship.tiles[i])
       THEN [k \in 1 .. Len(kept) |-> <<kept[k][2], kept[k][3]>>]
       ELSE <<>>

\* `edges` after the two for loops over the tiles lo .. hi - 1, in row-major
\* order (interior.rs:847-879)
RECURSIVE HullEdges(_, _, _)
HullEdges(ship, lo, hi) ==
    IF hi <= lo THEN <<>>
    ELSE IF hi = lo + 1 THEN TileEdges(ship, lo)
    ELSE HullEdges(ship, lo, (lo + hi) \div 2) \o HullEdges(ship, (lo + hi) \div 2, hi)

\* the while loop that follows the edges from `current` (interior.rs:891-904):
\* the first remaining edge that starts at current is removed and its end
\* becomes current, until the chain closes or no edge continues it
RECURSIVE FollowEdges(_, _, _)
FollowEdges(remaining, current, polygon_points) ==
    LET hits == {k \in 1 .. Len(remaining) : remaining[k][1] = current}
    IN IF hits = {} THEN [current |-> current, polygon_points |-> polygon_points]
       ELSE LET position == CHOOSE k \in hits : \A n \in hits : k <= n
                edge == remaining[position]
                rest == [k \in 1 .. (Len(remaining) - 1) |->
                           IF k < position THEN remaining[k] ELSE remaining[k + 1]]
                points == Append(polygon_points, edge[2])
            IN IF edge[2] = polygon_points[1]
               THEN [current |-> edge[2], polygon_points |-> points]
               ELSE FollowEdges(rest, edge[2], points)

\* ShipInterior::rectangular_hull; vertices in half metres
rectangular_hull(width, height) ==
    [vertices |-> << <<0 - width, height>>, <<width, height>>,
                     <<width, 0 - height>>, <<0 - width, 0 - height>> >>]

\* the shape a ship of the given tiles as a whole has to rebuild_hull_shape
HullOf(ship) ==
    LET edges == HullEdges(ship, 0, ship.width * ship.height)
    IN IF edges = <<>> THEN rectangular_hull(ship.width, ship.height)
       ELSE LET chain == FollowEdges(edges, edges[1][1], <<edges[1][1]>>)
                points == chain.polygon_points
            IN IF Len(points) < 4 \/ chain.current # points[1]
               THEN rectangular_hull(ship.width, ship.height)
               ELSE [vertices |->
                       [k \in 1 .. (Len(points) - 1) |->
                          <<2 * points[k][1] - ship.width,
                            ship.height - 2 * points[k][2]>>]]

\* ShipInterior::rebuild_hull_shape
rebuild_hull_shape(ship) == [ship EXCEPT !.hull_shape = HullOf(ship)]

\* ShipInterior::new_test_layout
new_test_layout(cfg) ==
    LET width == 12
        height == 8
        tiles == LayoutTiles(width, height)
    IN rebuild_hull_shape(
       [width |-> width,
        height |-> height,
        tiles |-> tiles,
        tile_atmos |-> [i \in DOMAIN tiles |->
                           IF tile_supports_atmos(tiles[i])
                           THEN with_standard_air(cfg)
                           ELSE vacuum(cfg.baseline_temp_c)],
        power |-> [net_kw |-> 0, total_production_kw |-> 0, total_consumption_kw |-> 0],
        devices |-> LayoutDevices(cfg, width, height),
        hull_shape |-> [vertices |-> <<>>]])

\* ShipInterior::in_bounds
in_bounds(ship, x, y) == x >= 0 /\ y >= 0 /\ x < ship.width /\ y < ship.height

\* ShipInterior::tile_type (out of bounds reads as Empty)
tile_type(ship, x, y) ==
    IF x >= 0 /\ y >= 0 /\ x < ship.width /\ y < ship.height
    THEN ship.tiles[idx(x, y, ship.width)]
    ELSE "Empty"

\* a test that lets the pawn onto every tile of the grid
PassableInBounds(ship, x, y) == in_bounds(ship, x, y)

\* ShipInterior::is_passable
is_passable(ship, x, y) ==
    in_bounds(ship, x, y) /\ tile_type(ship, x, y) \in {"Floor", "Bed", "DoorOpen"}

\* ShipInterior::tile_atmos_cell / tile_atmos_cell_mut: does the tile have a cell
has_atmos_cell(ship, x, y) ==
    in_bounds(ship, x, y) /\ tile_supports_atmos(tile_type(ship, x, y))

\* a retyping that fills every breathable tile with standard air, whatever it held
SeedAlways(cell, new_type, cfg) ==
    IF ~tile_supports_atmos(new_type) THEN vacuum(cfg.baseline_temp_c)
    ELSE with_standard_air(cfg)

\* the if / else if of set_tile_type (interior.rs:798-802): the cell of the tile
\* after it became new_type
RetypedCell(cell, new_type, cfg) ==
    IF ~tile_supports_atmos(new_type) THEN vacuum(cfg.baseline_temp_c)
    ELSE IF total_mass(cell) <= F32Epsilon THEN with_standard_air(cfg)
    ELSE cell

\* a retyping that leaves the cell of the tile as it was
RetypeOnly(ship, x, y, new_type, cfg) ==
    IF x < ship.width /\ y < ship.height
    THEN [ship EXCEPT !.tiles[idx(x, y, ship.width)] = new_type]
    ELSE ship

\* ShipInterior::set_tile_type
set_tile_type(ship, x, y, new_type, cfg) ==
    IF x < ship.width /\ y < ship.height
    THEN LET i == idx(x, y, ship.width)
         IN [ship EXCEPT
               !.tiles[i] = new_type,
               !.tile_atmos[i] = RetypedCell(@, new_type, cfg)]
    ELSE ship

\* one gas of one cell, as ShipInterior::total_atmos reads it
CellGas(cell, gas) ==
    CASE gas = "O2" -> cell.o2_kg
      [] gas = "N2" -> cell.n2_kg
      [] OTHER -> cell.co2_kg

\* the sum that the loop of ShipInterior::total_atmos accumulates over the
\* cells lo .. hi - 1, split in halves (integer addition is associative)
RECURSIVE SumRange(_, _, _, _)
SumRange(tile_atmos, gas, lo, hi) ==
    IF hi <= lo THEN 0
    ELSE IF hi = lo + 1 THEN CellGas(tile_atmos[lo], gas)
    ELSE LET mid == (lo + hi) \div 2
         IN SumRange(tile_atmos, gas, lo, mid) + SumRange(tile_atmos, gas, mid, hi)

\* GasTotals of ShipInterior::total_atmos, one gas at a time
SumCells(tile_atmos, gas, n) == SumRange(tile_atmos, gas, 0, n)

\* ShipInterior::total_atmos
total_atmos(ship) ==
    [o2_kg |-> SumCells(ship.tile_atmos, "O2", ship.width * ship.height),
     n2_kg |-> SumCells(ship.tile_atmos, "N2", ship.width * ship.height),
     co2_kg |-> SumCells(ship.tile_atmos, "CO2", ship.width * ship.height)]

(***************************************************************************)
(* ShipInterior::step_atmosphere                                           *)
(***************************************************************************)
\* a half-neighbourhood with the left tile in place of the lower left one
NeighborsWithLeft == <<<<1, 0>>, <<0, 1>>, <<1, 1>>, <<-1, 0>>>>

\* const NEIGHBORS (interior.rs:1042)
NEIGHBORS == <<<<1, 0>>, <<0, 1>>, <<1, 1>>, <<-1, 1>>>>

\* factor = min(ATMOS_DIFFUSION_COEFF * dt, ATMOS_DIFFUSION_MAX_FRACTION)
diffusion_factor(dt) == Min(ATMOS_DIFFUSION_COEFF * dt, ATMOS_DIFFUSION_MAX_FRACTION)

\* the pair (a, a + NEIGHBORS[k]) is visited by the sweep: both tiles in bounds
\* and both breathable (interior.rs:1046-1058)
PairVisited(ship, ax, ay, k) ==
    LET nx == ax + NEIGHBORS[k][1]
        ny == ay + NEIGHBORS[k][2]
    IN /\ in_bounds(ship, ax, ay)
       /\ tile_supports_atmos(ship.tiles[idx(ax, ay, ship.width)])
       /\ nx >= 0 /\ ny >= 0 /\ nx < ship.width /\ ny < ship.height
       /\ tile_supports_atmos(ship.tiles[idx(nx, ny, ship.width)])

\* delta_o2 / delta_n2 / delta_co2 of one visited pair (interior.rs:1061-1063)
PairDelta(cell_a, cell_b, factor) ==
    [o2_kg |-> MulDiv(cell_b.o2_kg - cell_a.o2_kg, factor, FactorDen),
     n2_kg |-> MulDiv(cell_b.n2_kg - cell_a.n2_kg, factor, FactorDen),
     co2_kg |-> MulDiv(cell_b.co2_kg - cell_a.co2_kg, factor, FactorDen)]

\* deltas[i] after the whole sweep: += for every pair in which tile i is cell_a,
\* -= for every pair in which it is cell_b (interior.rs:1064-1069)
RECURSIVE SweepDelta(_, _, _, _, _)
SweepDelta(ship, x, y, factor, k) ==
    IF k = 0 THEN [o2_kg |-> 0, n2_kg |-> 0, co2_kg |-> 0]
    ELSE LET rest == SweepDelta(ship, x, y, factor, k - 1)
             dx == NEIGHBORS[k][1]
             dy == NEIGHBORS[k][2]
             me == ship.tile_atmos[idx(x, y, ship.width)]
             asA == IF PairVisited(ship, x, y, k)
                    THEN PairDelta(me, ship.tile_atmos[idx(x + dx, y + dy, ship.width)],
                                   factor)
                    ELSE [o2_kg |-> 0, n2_kg |-> 0, co2_kg |-> 0]
             asB == IF PairVisited(ship, x - dx, y - dy, k)
                    THEN PairDelta(ship.tile_atmos[idx(x - dx, y - dy, ship.width)], me,
                                   factor)
                    ELSE [o2_kg |-> 0, n2_kg |-> 0, co2_kg |-> 0]
         IN [o2_kg |-> rest.o2_kg + asA.o2_kg - asB.o2_kg,
             n2_kg |-> rest.n2_kg + asA.n2_kg - asB.n2_kg,
             co2_kg |-> rest.co2_kg + asA.co2_kg - asB.co2_kg]

\* ShipInterior::step_atmosphere
step_atmosphere(ship, dt) ==
    IF dt <= 0 \/ diffusion_factor(dt) <= 0 THEN ship
    ELSE LET factor == diffusion_factor(dt)
         IN [ship EXCEPT !.tile_atmos =
               [i \in DOMAIN ship.tile_atmos |->
                  LET delta == SweepDelta(ship, i % ship.width, i \div ship.width,
                                          factor, Len(NEIGHBORS))
                      cell == ship.tile_atmos[i]
                  IN clamp_non_negative(
                       [cell EXCEPT !.o2_kg = @ + delta.o2_kg,
                                    !.n2_kg = @ + delta.n2_kg,
                                    !.co2_kg = @ + delta.co2_kg])]]

(***************************************************************************)
(* ShipInterior::step: the device and power pass                           *)
(***************************************************************************)
\* the least element of a non-empty set of integers
SetMin(S) == CHOOSE m \in S : \A n \in S : m <= n

\* a choice that looks inside the footprint before it looks in front of it
PickInsideFirst(ship, x, y, w, h) ==
    LET front_y == y + h
        front == IF front_y < ship.height
                 THEN {tx \in x..(Min(x + w, ship.width) - 1) :
                          tile_supports_atmos(tile_type(ship, tx, front_y))}
                 ELSE {}
        inside == {i \in 0..(ship.width * ship.height - 1) :
                      /\ i % ship.width >= x /\ i % ship.width < Min(x + w, ship.width)
                      /\ i \div ship.width >= y /\ i \div ship.width < Min(y + h, ship.height)
                      /\ tile_supports_atmos(ship.tiles[i])}
    IN IF inside # {}
       THEN [some |-> TRUE, x |-> SetMin(inside) % ship.width,
             y |-> SetMin(inside) \div ship.width]
       ELSE IF front # {} THEN [some |-> TRUE, x |-> SetMin(front), y |-> front_y]
       ELSE [some |-> FALSE, x |-> 0, y |-> 0]

\* ShipInterior::pick_device_output_tile; None is [some |-> FALSE]
pick_device_output_tile(ship, x, y, w, h) ==
    LET front_y == y + h
        front == IF front_y < ship.height
                 THEN {tx \in x..(Min(x + w, ship.width) - 1) :
                          tile_supports_atmos(tile_type(ship, tx, front_y))}
                 ELSE {}
        inside == {i \in 0..(ship.width * ship.height - 1) :
                      /\ i % ship.width >= x /\ i % ship.width < Min(x + w, ship.width)
                      /\ i \div ship.width >= y /\ i \div ship.width < Min(y + h, ship.height)
                      /\ tile_supports_atmos(ship.tiles[i])}
    IN IF front # {} THEN [some |-> TRUE, x |-> SetMin(front), y |-> front_y]
       ELSE IF inside # {}
       THEN [some |-> TRUE, x |-> SetMin(inside) % ship.width,
             y |-> SetMin(inside) \div ship.width]
       ELSE [some |-> FALSE, x |-> 0, y |-> 0]

\* ShipInterior::inject_gas_into_tile
inject_gas_into_tile(ship, x, y, gas, mass) ==
    IF mass <= 0 THEN ship
    ELSE IF has_atmos_cell(ship, x, y)
    THEN [ship EXCEPT !.tile_atmos[idx(x, y, ship.width)] = add_gas(@, gas, mass)]
    ELSE ship

\* a search that settles for the first tank of the ship when no device has the id
FindOrFirstTank(devices, self_idx, tank_id) ==
    LET hits == {j \in 1..Len(devices) : j # self_idx /\ devices[j].id = tank_id}
        tanks == {j \in 1..Len(devices) : devices[j].data.kind = "Tank"}
    IN IF hits # {} THEN CHOOSE j \in hits : \A h \in hits : j <= h
       ELSE IF tanks # {} THEN CHOOSE j \in tanks : \A h \in tanks : j <= h
       ELSE 0

\* iter.find(|d| d.id == tank_id) over before.chain(after): the index of the first
\* device other than the one at `self_idx` whose id is tank_id, or 0
FindLinkedDevice(devices, self_idx, tank_id) ==
    LET hits == {j \in 1..Len(devices) : j # self_idx /\ devices[j].id = tank_id}
    IN IF hits = {} THEN 0 ELSE SetMin(hits)

\* the gas of `gas` held by a tank payload
TankGas(tank, gas) ==
    CASE gas = "O2" -> tank.o2_kg
      [] gas = "N2" -> tank.n2_kg
      [] gas = "CO2" -> tank.co2_kg
      [] OTHER -> tank.xenon_kg

\* a withdrawal of the whole transfer, whatever the tank holds
WithdrawAll(available, transfer) == transfer

\* moved = tank.<gas>.min(transfer) (interior.rs:991, 996, 1001, 1006)
WithdrawAmount(available, transfer) == Min(available, transfer)

\* a withdrawal that leaves the xenon in the tank
WithdrawBreathable(tank, gas, transfer) ==
    CASE gas = "O2" -> [tank EXCEPT !.o2_kg = @ - WithdrawAmount(@, transfer)]
      [] gas = "N2" -> [tank EXCEPT !.n2_kg = @ - WithdrawAmount(@, transfer)]
      [] gas = "CO2" -> [tank EXCEPT !.co2_kg = @ - WithdrawAmount(@, transfer)]
      [] OTHER -> tank

\* the match on data.gas_type (interior.rs:989-1010): the tank after the
\* withdrawal
TankWithdraw(tank, gas, transfer) ==
    CASE gas = "O2" -> [tank EXCEPT !.o2_kg = @ - WithdrawAmount(@, transfer)]
      [] gas = "N2" -> [tank EXCEPT !.n2_kg = @ - WithdrawAmount(@, transfer)]
      [] gas = "CO2" -> [tank EXCEPT !.co2_kg = @ - WithdrawAmount(@, transfer)]
      [] OTHER -> [tank EXCEPT !.xenon_kg = @ - WithdrawAmount(@, transfer)]

\* the value `moved` of the match: Xenon is withdrawn but reported as 0.0
MovedToAtmosphere(tank, gas, transfer) ==
    IF gas = "Xenon" THEN 0 ELSE WithdrawAmount(TankGas(tank, gas), transfer)

\* a reactor that trips offline after every tick in which it burned fuel
ReactorTrips(data, dt) ==
    IF data.online /\ data.fuel_kg > 0
    THEN [data EXCEPT !.fuel_kg = @ - Min(data.fuel_burn_rate_kg_per_s * dt, @),
                      !.online = FALSE]
    ELSE data

\* the Reactor arm of the match (interior.rs:966-976)
ReactorStep(data, dt) ==
    IF data.online /\ data.fuel_kg > 0
    THEN LET burn == Min(data.fuel_burn_rate_kg_per_s * dt, data.fuel_kg)
             fuel == data.fuel_kg - burn
         IN IF fuel <= 0
            THEN [data EXCEPT !.fuel_kg = 0, !.online = FALSE]
            ELSE [data EXCEPT !.fuel_kg = fuel]
    ELSE data

\* power accounting of one device (interior.rs:959-963, 967-968)
PowerStep(power, device) ==
    LET p1 == IF device.online /\ device.power_kw > 0
              THEN [power EXCEPT !.total_consumption_kw = @ + device.power_kw]
              ELSE IF device.online /\ device.power_kw < 0
              THEN [power EXCEPT !.total_production_kw = @ - device.power_kw]
              ELSE power
    IN IF device.data.kind = "Reactor" /\ device.data.online /\ device.data.fuel_kg > 0
       THEN [p1 EXCEPT !.total_production_kw = @ + device.data.power_output_kw]
       ELSE p1

\* the Dispenser arm (interior.rs:977-1017) followed by the deferred injection
\* (interior.rs:1021-1025), for the dispenser at index i
DispenserStep(ship, i, dt) ==
    LET device == ship.devices[i]
        data == device.data
        transfer == data.rate_kg_per_s * dt
        j == IF data.connected_tank_id = 0 THEN 0
             ELSE FindLinkedDevice(ship.devices, i, data.connected_tank_id)
    IN IF ~device.online \/ ~data.active \/ transfer <= 0 THEN ship
       ELSE IF j = 0 THEN ship
       ELSE IF ship.devices[j].data.kind # "Tank" THEN ship
       ELSE LET tank == ship.devices[j].data
                moved == MovedToAtmosphere(tank, data.gas_type, transfer)
                drawn == [ship EXCEPT !.devices[j].data =
                                         TankWithdraw(tank, data.gas_type, transfer)]
                target == pick_device_output_tile(drawn, device.x, device.y,
                                                  device.w, device.h)
            IN IF moved > 0 /\ target.some
               THEN inject_gas_into_tile(drawn, target.x, target.y, data.gas_type, moved)
               ELSE drawn

\* one iteration of `for idx in 0..device_count` (interior.rs:953-1026)
DeviceStep(ship, i, dt) ==
    LET device == ship.devices[i]
        powered == [ship EXCEPT !.power = PowerStep(@, device)]
    IN CASE device.data.kind = "Reactor" ->
              [powered EXCEPT !.devices[i].data = ReactorStep(@, dt)]
         [] device.data.kind = "Dispenser" -> DispenserStep(powered, i, dt)
         [] OTHER -> powered

RECURSIVE StepDevices(_, _, _)
StepDevices(ship, n, dt) ==
    IF n = 0 THEN ship ELSE DeviceStep(StepDevices(ship, n - 1, dt), n, dt)

\* a device pass that adds to the totals of the tick before
StepOnOldTotals(ship, dt) ==
    LET done == StepDevices(ship, Len(ship.devices), dt)
    IN [done EXCEPT !.power.net_kw =
                       done.power.total_production_kw - done.power.total_consumption_kw]

\* ShipInterior::step
ship_step(ship, dt) ==
    LET reset == [ship EXCEPT !.power.total_production_kw = 0,
                              !.power.total_consumption_kw = 0]
        done == StepDevices(reset, Len(ship.devices), dt)
    IN [done EXCEPT !.power.net_kw =
                       done.power.total_production_kw - done.power.total_consumption_kw]

(***************************************************************************)
(* Pawn                                                                    *)
(***************************************************************************)
\* 1.0 on the needs scale
NeedOne == 172800000

\* HUNGER_RATE = 1/(8*3600) per second, in need units per ms
HUNGER_RATE == 6

\* THIRST_RATE = 1/(4*3600) per second
THIRST_RATE == 12

\* REST_FATIGUE_RATE = 1/(16*3600) per second
REST_FATIGUE_RATE == 3

\* REST_RECOVER_RATE = 1/(6*3600) per second
REST_RECOVER_RATE == 8

\* the 0.2 by which one food unit lowers hunger (interior.rs:1215)
FoodHungerRelief == 34560000

\* 1 hp = 1000000 health units
HpOne == 1000000

\* pressure in Pa of 1000000 mass units of each gas in one tile, from
\* P = n R T / V with the default molar masses, 20 C and a 1 x 1 x 2 m tile
\* (interior.rs:182-222, config.rs:81-97, 236-238)
PaPerMegaUnitO2 == 3809

PaPerMegaUnitN2 == 4350

PaPerMegaUnitCO2 == 2769

\* LOW_PRESSURE_THRESHOLD_KPA = 70 kPa, in Pa
LOW_PRESSURE_THRESHOLD_KPA == 70000

\* LOW_O2_PARTIAL_PRESSURE_KPA = 16 kPa, in Pa
LOW_O2_PARTIAL_PRESSURE_KPA == 16000

\* HIGH_CO2_PARTIAL_PRESSURE_KPA = 8 kPa, in Pa
HIGH_CO2_PARTIAL_PRESSURE_KPA == 8000

\* SUFFOCATION_DAMAGE_PER_SEC = 2 hp/s, in health units per ms
SUFFOCATION_DAMAGE_PER_SEC == 2000

\* VACUUM_DAMAGE_PER_SEC = 8 hp/s, in health units per ms
VACUUM_DAMAGE_PER_SEC == 8000

\* HealthState::new_default: (max_hp, vital) of Head, Torso, Left Arm, Right Arm,
\* Left Leg, Right Leg
new_default_health ==
    << [hp |-> 30 * HpOne, max_hp |-> 30 * HpOne, vital |-> TRUE],
       [hp |-> 40 * HpOne, max_hp |-> 40 * HpOne, vital |-> TRUE],
       [hp |-> 25 * HpOne, max_hp |-> 25 * HpOne, vital |-> FALSE],
       [hp |-> 25 * HpOne, max_hp |-> 25 * HpOne, vital |-> FALSE],
       [hp |-> 35 * HpOne, max_hp |-> 35 * HpOne, vital |-> FALSE],
       [hp |-> 35 * HpOne, max_hp |-> 35 * HpOne, vital |-> FALSE] >>

\* f32::clamp(0.0, 1.0)
Clamp01(v) == Max(0, Min(v, NeedOne))

\* a clamp that leaves the needs as they are
NoClamp(needs) == needs

\* NeedsState::clamp
needs_clamp(needs) ==
    [hunger |-> Clamp01(needs.hunger), thirst |-> Clamp01(needs.thirst),
     rest |-> Clamp01(needs.rest)]

\* TileAtmosphere::partial_pressure_kpa, in Pa
partial_pressure_kpa(cell, gas) ==
    LET Pa(mass, per_mega) ==
            (mass \div 1000000) * per_mega
                + MulDivNat(mass % 1000000, per_mega, 1000) \div 1000
    IN CASE gas = "O2" -> Pa(cell.o2_kg, PaPerMegaUnitO2)
         [] gas = "N2" -> Pa(cell.n2_kg, PaPerMegaUnitN2)
         [] gas = "CO2" -> Pa(cell.co2_kg, PaPerMegaUnitCO2)
         [] OTHER -> 0

\* TileAtmosphere::pressure_kpa, in Pa
pressure_kpa(cell) ==
    partial_pressure_kpa(cell, "O2") + partial_pressure_kpa(cell, "N2")
        + partial_pressure_kpa(cell, "CO2")

(***************************************************************************)
(* InteriorWorld                                                           *)
(***************************************************************************)
\* InteriorWorld::new_test_ship
new_test_ship(cfg) ==
    [ship |-> new_test_layout(cfg),
     pawn |-> [x |-> 2, y |-> 3, status |-> "Awake",
               needs |-> [hunger |-> 0, thirst |-> 0, rest |-> 0],
               health |-> new_default_health,
               suffocation_time |-> 0],
     command_queue |-> <<>>,
     atmos_accumulator |-> 0]

\* InteriorWorld::queue_command
queue_command(iw, command) ==
    [iw EXCEPT !.command_queue = Append(@, command)]

\* InteriorWorld::try_move_pawn
try_move_pawn(iw, dx, dy) ==
    LET target_x == iw.pawn.x + dx
        target_y == iw.pawn.y + dy
    IN IF is_passable(iw.ship, target_x, target_y)
       THEN [iw EXCEPT !.pawn.x = target_x, !.pawn.y = target_y]
       ELSE iw

\* a sleep toggle that does not look at the tile
ToggleAnywhere(iw) ==
    [iw EXCEPT !.pawn.status = IF @ = "Awake" THEN "Sleeping" ELSE "Awake"]

\* InteriorWorld::toggle_sleep
toggle_sleep(iw) ==
    IF tile_type(iw.ship, iw.pawn.x, iw.pawn.y) # "Bed" THEN iw
    ELSE [iw EXCEPT !.pawn.status = IF @ = "Awake" THEN "Sleeping" ELSE "Awake"]

\* device_contains
device_contains(device, x, y) ==
    x >= device.x /\ y >= device.y /\ x < device.x + device.w /\ y < device.y + device.h

\* the DoorDevice arm and the door_update that follows the loop
\* (interior.rs:1183-1197, 1223-1227): every tile of the footprint, row by row
RECURSIVE SetFootprintTiles(_, _, _, _, _)
SetFootprintTiles(ship, device, n, new_type, cfg) ==
    IF n = 0 THEN ship
    ELSE set_tile_type(SetFootprintTiles(ship, device, n - 1, new_type, cfg),
                       device.x + ((n - 1) % device.w),
                       device.y + ((n - 1) \div device.w),
                       new_type, cfg)

\* a reactor toggle that does not look at the fuel
ToggleReactor(device) ==
    [device EXCEPT !.data.online = ~@, !.online = ~device.data.online]

\* the Reactor arm of interact_at (interior.rs:1202-1207)
InteractReactor(device) ==
    IF device.data.fuel_kg > 0
    THEN [device EXCEPT !.data.online = ~@, !.online = ~device.data.online]
    ELSE device

\* a bed that toggles sleep wherever the pawn stands
InteractBedFromAnywhere(iw, x, y) == toggle_sleep(iw)

\* the BedDevice arm of interact_at (interior.rs:1178-1182)
InteractBed(iw, x, y) ==
    IF iw.pawn.x = x /\ iw.pawn.y = y THEN toggle_sleep(iw) ELSE iw

\* a food generator that feeds the pawn from an empty store
FeedFromNothing(iw, i) ==
    [iw EXCEPT
       !.ship.devices[i].data.food_units = @ - Min(@, FoodOne),
       !.pawn.needs = needs_clamp([@ EXCEPT !.hunger = Max(@ - FoodHungerRelief, 0)])]

\* the FoodGenerator arm of interact_at (interior.rs:1211-1218)
InteractFood(iw, i) ==
    IF iw.ship.devices[i].data.food_units > 0
    THEN [iw EXCEPT
            !.ship.devices[i].data.food_units = @ - Min(@, FoodOne),
            !.pawn.needs = needs_clamp(
                [@ EXCEPT !.hunger = Max(@ - FoodHungerRelief, 0)])]
    ELSE iw

\* the match of interact_at on the device at index i (interior.rs:1177-1220)
InteractDevice(iw, i, x, y, cfg) ==
    LET device == iw.ship.devices[i]
        kind == device.data.kind
    IN CASE kind = "BedDevice" -> InteractBed(iw, x, y)
         [] kind = "DoorDevice" ->
              LET open == ~device.data.open
                  flipped == [iw.ship EXCEPT !.devices[i].data.open = open]
              IN [iw EXCEPT !.ship =
                    SetFootprintTiles(flipped, device, device.w * device.h,
                                      IF open THEN "DoorOpen" ELSE "DoorClosed", cfg)]
         [] kind = "Light" ->
              [iw EXCEPT !.ship.devices[i].data.online = ~@,
                         !.ship.devices[i].online = ~device.data.online]
         [] kind = "Reactor" ->
              [iw EXCEPT !.ship.devices[i] = InteractReactor(@)]
         [] kind = "Dispenser" ->
              [iw EXCEPT !.ship.devices[i].data.active = ~@]
         [] kind = "FoodGenerator" -> InteractFood(iw, i)
         [] OTHER -> iw

\* InteriorWorld::interact_at: the first device whose footprint holds (x, y)
interact_at(iw, x, y, cfg) ==
    IF x >= iw.ship.width \/ y >= iw.ship.height THEN iw
    ELSE LET hits == {i \in 1..Len(iw.ship.devices) :
                         device_contains(iw.ship.devices[i], x, y)}
         IN IF hits = {} THEN iw ELSE InteractDevice(iw, SetMin(hits), x, y, cfg)

\* the match of process_commands on one command (interior.rs:1134-1144)
ApplyCommand(iw, command, cfg) ==
    CASE command.type = "MovePawn" -> try_move_pawn(iw, command.dx, command.dy)
      [] command.type = "ToggleSleep" -> toggle_sleep(iw)
      [] OTHER -> interact_at(iw, command.x, command.y, cfg)

\* command_queue.pop_front(): the command taken and the queue left
\* pop_back: the queue served from its newest end
PopBack(queue) ==
    [command |-> queue[Len(queue)], rest |-> SubSeq(queue, 1, Len(queue) - 1)]

PopCommand(queue) == [command |-> Head(queue), rest |-> Tail(queue)]

\* one entry of the call log of InteriorWorld::step: the call made, the command
\* it applied (if it applied one), the gas totals of the tiles when it returned,
\* the interior it left, and (for apply_pawn_atmos_effects) the value its local
\* `suffocating` had at the final if
LogEntry(ev, command, w) ==
    [ev |-> ev, command |-> command, atmos |-> total_atmos(w.ship), w |-> w,
     suffocating |-> FALSE]

\* the command field of the entries that apply no command
NoCommand == [type |-> "None"]

\* InteriorWorld::process_commands, on a pair [w: the world, log: the calls made]
RECURSIVE process_commands(_, _)
process_commands(st, cfg) ==
    IF st.w.command_queue = <<>> THEN st
    ELSE LET popped == PopCommand(st.w.command_queue)
             taken == [st.w EXCEPT !.command_queue = popped.rest]
             applied == ApplyCommand(taken, popped.command, cfg)
         IN process_commands(
              [w |-> applied,
               log |-> Append(st.log, LogEntry("command", popped.command, applied))],
              cfg)

\* an update that lets the needs of a sleeping pawn drift as if it were awake
NeedsIgnoreStatus(iw, dt) ==
    [iw EXCEPT !.pawn.needs =
        needs_clamp([hunger |-> @.hunger + HUNGER_RATE * dt,
                     thirst |-> @.thirst + THIRST_RATE * dt,
                     rest |-> @.rest + REST_FATIGUE_RATE * dt])]

\* InteriorWorld::update_pawn_needs
update_pawn_needs(iw, dt) ==
    LET n == iw.pawn.needs
    IN [iw EXCEPT !.pawn.needs =
          needs_clamp(
            IF iw.pawn.status = "Awake"
            THEN [hunger |-> n.hunger + HUNGER_RATE * dt,
                  thirst |-> n.thirst + THIRST_RATE * dt,
                  rest |-> n.rest + REST_FATIGUE_RATE * dt]
            ELSE [n EXCEPT !.rest = @ - REST_RECOVER_RATE * dt])]

\* damage that is subtracted without the floor at zero
DamageWithoutFloor(iw, amount) ==
    IF amount <= 0 THEN iw
    ELSE [iw EXCEPT !.pawn.health =
            [k \in DOMAIN @ |-> [@[k] EXCEPT !.hp = @ - amount]]]

\* InteriorWorld::apply_health_damage
apply_health_damage(iw, amount) ==
    IF amount <= 0 THEN iw
    ELSE [iw EXCEPT !.pawn.health =
            [k \in DOMAIN @ |-> [@[k] EXCEPT !.hp = Max(@ - amount, 0)]]]

\* the three pressure terms of apply_pawn_atmos_effects (interior.rs:1265-1277)
PressureDamage(cell, dt) ==
    LET pressure == pressure_kpa(cell)
        o2_partial == partial_pressure_kpa(cell, "O2")
        co2_partial == partial_pressure_kpa(cell, "CO2")
    IN (IF pressure < LOW_PRESSURE_THRESHOLD_KPA
        THEN MulDivNat((LOW_PRESSURE_THRESHOLD_KPA - pressure) * dt, 5, 1000) ELSE 0)
     + (IF o2_partial < LOW_O2_PARTIAL_PRESSURE_KPA
        THEN MulDivNat((LOW_O2_PARTIAL_PRESSURE_KPA - o2_partial) * dt, 50, 1000) ELSE 0)
     + (IF co2_partial > HIGH_CO2_PARTIAL_PRESSURE_KPA
        THEN MulDivNat((co2_partial - HIGH_CO2_PARTIAL_PRESSURE_KPA) * dt, 50, 1000)
        ELSE 0)

\* a breath that always releases the full CO2 amount, whatever O2 it found
BreatheUnscaled(cell, dt) ==
    [cell EXCEPT !.o2_kg = @ - Min(@, O2_CONSUMPTION_KG_PER_SEC * dt),
                 !.co2_kg = @ + CO2_PRODUCTION_KG_PER_SEC * dt]

\* the breathing of apply_pawn_atmos_effects on the pawn's cell
\* (interior.rs:1252-1261)
Breathe(cell, dt) ==
    LET required_o2 == O2_CONSUMPTION_KG_PER_SEC * dt
        consumed == Min(cell.o2_kg, required_o2)
        produced == IF required_o2 > 0
                    THEN MulDivNat(CO2_PRODUCTION_KG_PER_SEC * dt, consumed, required_o2)
                    ELSE 0
    IN [cell EXCEPT !.o2_kg = @ - consumed, !.co2_kg = @ + produced]

\* consumed < required_o2 * 0.9 (interior.rs:1262)
Suffocating(cell, dt) ==
    10 * Min(cell.o2_kg, O2_CONSUMPTION_KG_PER_SEC * dt)
        < 9 * (O2_CONSUMPTION_KG_PER_SEC * dt)

\* the local `suffocating` of apply_pawn_atmos_effects when it reaches the
\* final if (interior.rs:1250, 1262-1264, 1282)
PawnSuffocating(iw, dt) ==
    IF has_atmos_cell(iw.ship, iw.pawn.x, iw.pawn.y)
    THEN Suffocating(iw.ship.tile_atmos[idx(iw.pawn.x, iw.pawn.y, iw.ship.width)], dt)
    ELSE TRUE

\* a suffocation clock that is never set back
ClockNeverReset(suffocation_time, suffocating, dt) ==
    IF suffocating THEN suffocation_time + dt ELSE suffocation_time

\* pawn.suffocation_time after the final if / else (interior.rs:1285-1290)
SuffocationClock(suffocation_time, suffocating, dt) ==
    IF suffocating THEN suffocation_time + dt ELSE 0

\* InteriorWorld::apply_pawn_atmos_effects
apply_pawn_atmos_effects(iw, dt) ==
    LET has_cell == has_atmos_cell(iw.ship, iw.pawn.x, iw.pawn.y)
        i == idx(iw.pawn.x, iw.pawn.y, iw.ship.width)
        suffocating == PawnSuffocating(iw, dt)
        breathed == IF has_cell
                    THEN LET cell == Breathe(iw.ship.tile_atmos[i], dt)
                         IN apply_health_damage(
                              [iw EXCEPT !.ship.tile_atmos[i] = cell],
                              PressureDamage(cell, dt))
                    ELSE apply_health_damage(iw, VACUUM_DAMAGE_PER_SEC * dt)
        timed == [breathed EXCEPT !.pawn.suffocation_time =
                                     SuffocationClock(@, suffocating, dt)]
    IN IF suffocating
       THEN apply_health_damage(timed, SUFFOCATION_DAMAGE_PER_SEC * dt)
       ELSE timed

\* the loop `while self.atmos_accumulator >= tick` (interior.rs:1124-1129)
RECURSIVE AtmosSubSteps(_, _)
AtmosSubSteps(st, tick) ==
    IF st.w.atmos_accumulator >= tick
    THEN LET diffused == [st.w EXCEPT !.ship = step_atmosphere(@, tick)]
             breathed == apply_pawn_atmos_effects(diffused, tick)
         IN AtmosSubSteps(
              [w |-> [breathed EXCEPT !.atmos_accumulator = @ - tick],
               log |-> st.log \o
                         <<LogEntry("step_atmosphere", NoCommand, diffused),
                           [LogEntry("apply_pawn_atmos_effects", NoCommand, breathed)
                               EXCEPT !.suffocating = PawnSuffocating(diffused, tick)]>>],
              tick)
    ELSE st

\* InteriorWorld::step, on a pair [w: the world, log: the calls made]
interior_step_logged(iw, dt, cfg) ==
    LET s1 == process_commands([w |-> iw, log |-> <<>>], cfg)
        stepped == [s1.w EXCEPT !.ship = ship_step(@, dt)]
        s2 == [w |-> stepped,
               log |-> Append(s1.log, LogEntry("ship_step", NoCommand, stepped))]
        s3 == [w |-> update_pawn_needs(s2.w, dt),
               log |-> Append(s2.log, LogEntry("update_pawn_needs", NoCommand, s2.w))]
        s4 == [s3 EXCEPT !.w.atmos_accumulator = @ + dt]
        tick == cfg.tick_interval_s
    IN IF tick <= 0 THEN s4 ELSE AtmosSubSteps(s4, tick)

\* InteriorWorld::step: the world it leaves
interior_step(iw, dt, cfg) == interior_step_logged(iw, dt, cfg).w

(***************************************************************************)
(* Orbital mechanics (lib.rs).  Lengths are in planet radii (6371 km);     *)
(* angles are whole quarter turns; eccentricity is in thousandths; mean    *)
(* motion is in quarter turns per time unit.  The bodies the model adds    *)
(* are on orbits whose anomaly is a whole quarter turn at every modelled   *)
(* time, and either circular or at an apsis there: on these Kepler's       *)
(* equation E - e sin E = M is solved by E = M and every sine and cosine   *)
(* is 0, 1 or -1.                                                          *)
(***************************************************************************)
\* PLANET_RADIUS_M
PLANET_RADIUS_M == 1

\* GRAVITY_WELL_RADIUS_M = 1.5e9 m, in planet radii
GRAVITY_WELL_RADIUS_M == 235

\* GRAVITY_WELL_ALTITUDE_M
GRAVITY_WELL_ALTITUDE_M == GRAVITY_WELL_RADIUS_M - PLANET_RADIUS_M

\* DESPAWN_RADIUS_M
DESPAWN_RADIUS_M == PLANET_RADIUS_M + 3 * GRAVITY_WELL_ALTITUDE_M

\* a full turn, in quarter turns (2 PI)
FullTurn == 4

\* the largest integer r of lo..hi with r * r <= v (lo when there is none): the
\* interval is cut in 16 parts and the search goes on in the last part whose
\* lower end still fits
RECURSIVE ISqrtIn(_, _, _)
ISqrtIn(v, lo, hi) ==
    IF lo >= hi THEN lo
    ELSE LET width == (hi - lo) \div 16 + 1
             fits == {k \in 0 .. 16 : /\ lo + k * width <= hi
                                      /\ (lo + k * width) * (lo + k * width) <= v}
             top == IF fits = {} THEN 0 ELSE CHOOSE k \in fits : \A l \in fits : l <= k
             base == lo + top * width
         IN ISqrtIn(v, base, Min(base + width - 1, hi))

\* f64::sqrt on the integers
ISqrt(v) == ISqrtIn(v, 0, 46340)

\* f64::cos of a whole number of quarter turns
CosQ(q) == CASE q % 4 = 0 -> 1 [] q % 4 = 2 -> -1 [] OTHER -> 0

\* f64::sin of a whole number of quarter turns
SinQ(q) == CASE q % 4 = 1 -> 1 [] q % 4 = 3 -> -1 [] OTHER -> 0

\* Vec2::length_squared
length_squared(v) == v[1] * v[1] + v[2] * v[2]

\* Vec2::length
length(v) == ISqrt(length_squared(v))

\* Vec2::add
vec_add(a, b) == <<a[1] + b[1], a[2] + b[2]>>

\* Vec2::sub
vec_sub(a, b) == <<a[1] - b[1], a[2] - b[2]>>

\* normalize_angle: into (-PI, PI], that is -1, 0, 1 or 2 quarter turns
normalize_angle(angle) ==
    LET r == angle % FullTurn IN IF r > 2 THEN r - FullTurn ELSE r

\* the Newton-Raphson loop of orbit_to_cartesian (lib.rs:202-215) on the orbits
\* described above (e < 0.8): the seed E = M has f = -e sin M = 0, so the first
\* delta is 0 and the loop leaves E = M
KeplerSolve(e, m) == m

\* mean motion n = sqrt(mu / a^3)
mean_motion(a, mu_) == ISqrt(((mu_ \div a) \div a) \div a)

\* orbit_to_cartesian: <<position, velocity>>
orbit_to_cartesian(orbit, mu_, t) ==
    LET a == orbit.semi_major_axis
        e == orbit.eccentricity
        n == mean_motion(a, mu_)
        m == normalize_angle(orbit.mean_anomaly_at_epoch + n * (t - orbit.epoch))
        e_anom == KeplerSolve(e, m)
        cos_e == CosQ(e_anom)
        sin_e == SinQ(e_anom)
        factor == 1000 - e * cos_e
        sqrt_one_minus_e2 == ISqrt(Max(1000000 - e * e, 0))
        x_orb == MulDiv(a, 1000 * cos_e - e, 1000)
        y_orb == MulDiv(a * sin_e, sqrt_one_minus_e2, 1000)
        vx_orb == MulDiv(-a * sin_e * n, 1000, factor)
        vy_orb == MulDiv(a * cos_e * n, sqrt_one_minus_e2, factor)
        cos_w == CosQ(orbit.arg_of_periapsis)
        sin_w == SinQ(orbit.arg_of_periapsis)
    IN << <<cos_w * x_orb - sin_w * y_orb, sin_w * x_orb + cos_w * y_orb>>,
          <<cos_w * vx_orb - sin_w * vy_orb, sin_w * vx_orb + cos_w * vy_orb>> >>

\* assertions that test the semi-major axis for zero instead of for its sign
OrbitNonzero(orbit) ==
    orbit.semi_major_axis # 0 /\ orbit.eccentricity >= 0 /\ orbit.eccentricity < 1000

\* the assertions of orbit_to_cartesian (lib.rs:187-194)
OrbitValid(orbit) ==
    orbit.semi_major_axis > 0 /\ orbit.eccentricity >= 0 /\ orbit.eccentricity < 1000

\* the outcome of a call that returned
NoPanic == "none"

\* the message orbit_to_cartesian panics with, if it does (lib.rs:187-194)
orbit_to_cartesian_panic(orbit) ==
    IF OrbitValid(orbit) THEN NoPanic
    ELSE IF ~(orbit.semi_major_axis > 0) THEN "semi-major axis must be positive"
    ELSE "eccentricity out of range"

\* Vec2::dot
dot(a, b) == a[1] * b[1] + a[2] * b[2]

\* clamp (lib.rs:175-183)
clamp(value, min, max) ==
    IF value < min THEN min ELSE IF value > max THEN max ELSE value

\* f64::atan2(y, x) of a vector that lies along an axis, in quarter turns of
\* (-PI, PI]; atan2(0, 0) = 0
AtanQ(y, x) ==
    CASE y = 0 /\ x >= 0 -> 0
      [] x = 0 /\ y > 0 -> 1
      [] y = 0 /\ x < 0 -> 2
      [] x = 0 /\ y < 0 -> -1

\* h = position.x * velocity.y - position.y * velocity.x (lib.rs:244)
angular_momentum(position, velocity) ==
    position[1] * velocity[2] - position[2] * velocity[1]

\* 2 mu - r v^2: a = -mu / (2 energy) with energy = v^2 / 2 - mu / r is
\* mu r / (2 mu - r v^2), and has the sign of this term; at zero a is infinite
\* (lib.rs:247-248)
BindingTerm(position, velocity, mu_) ==
    2 * mu_ - length(position) * length_squared(velocity)

\* the message cartesian_to_orbit panics with, if it does (lib.rs:245, 249)
cartesian_to_orbit_panic(position, velocity, mu_) ==
    IF angular_momentum(position, velocity) = 0
    THEN "degenerate orbit (zero angular momentum)"
    ELSE IF BindingTerm(position, velocity, mu_) <= 0 THEN "invalid semi-major axis"
    ELSE NoPanic

\* the eccentricity vector in thousandths (lib.rs:251-259):
\* (r_vec * (v^2 - mu / r) - v_vec * (v_radial * r)) / mu, with v_radial * r the
\* dot product rv and r_vec * (v^2 - mu / r) taken as r_vec * (r v^2 - mu) / r
EccentricityScaled(position, velocity, mu_, r, v_sq, rv) ==
    <<MulDiv((position[1] * (r * v_sq - mu_)) \div r - velocity[1] * rv, 1000, mu_),
      MulDiv((position[2] * (r * v_sq - mu_)) \div r - velocity[2] * rv, 1000, mu_)>>

EccentricityVector(position, velocity, mu_) ==
    EccentricityScaled(position, velocity, mu_, length(position),
                       length_squared(velocity), dot(position, velocity))

\* omega = e_vec.y.atan2(e_vec.x), and 0 on a circular orbit (lib.rs:265-268)
Periapsis(e, e_vec) == IF e = 0 THEN 0 ELSE AtanQ(e_vec[2], e_vec[1])

\* true_anomaly (lib.rs:270-276); r_hat has the direction of the position
TrueAnomaly(position, omega) ==
    normalize_angle(AtanQ(position[2], position[1]) - omega)

\* e_anom = sin_e.atan2(cos_e) (lib.rs:278-286), sin_e and cos_e in thousandths
EccentricAnomaly(e, cos_nu, sin_nu) ==
    AtanQ(clamp((ISqrt(Max(1000000 - e * e, 0)) * sin_nu * 1000)
                    \div (1000 + e * cos_nu), -1000, 1000),
          clamp(((e + 1000 * cos_nu) * 1000) \div (1000 + e * cos_nu), -1000, 1000))

\* mean_anomaly = e_anom - e * e_anom.sin() (lib.rs:287)
MeanAnomaly(e, e_anom) == e_anom - (e * SinQ(e_anom)) \div 1000

\* the OrbitState cartesian_to_orbit returns (lib.rs:289-295)
OrbitAt(a, e, omega, true_anomaly, t) ==
    [semi_major_axis |-> a, eccentricity |-> e, arg_of_periapsis |-> omega,
     mean_anomaly_at_epoch |->
         MeanAnomaly(e, EccentricAnomaly(e, CosQ(true_anomaly), SinQ(true_anomaly))),
     epoch |-> t]

\* cartesian_to_orbit from the eccentricity on (lib.rs:260-295); an e below
\* 1e-12 is below a thousandth
OrbitWithEccentricity(position, a, e, e_vec, t) ==
    OrbitAt(a, e, Periapsis(e, e_vec), TrueAnomaly(position, Periapsis(e, e_vec)), t)

\* cartesian_to_orbit from the eccentricity vector on (lib.rs:256-295)
OrbitWithVector(position, a, e_vec, t) ==
    OrbitWithEccentricity(position, a, length(e_vec), e_vec, t)

\* cartesian_to_orbit, for a state it does not panic on
cartesian_to_orbit(position, velocity, mu_, t) ==
    OrbitWithVector(position,
                    MulDivNat(mu_, length(position),
                              BindingTerm(position, velocity, mu_)),
                    EccentricityVector(position, velocity, mu_), t)

(***************************************************************************)
(* World                                                                   *)
(***************************************************************************)
\* HullShape::bounding_radius
bounding_radius(vertices) ==
    IF vertices = <<>> THEN 0
    ELSE LET lens == {length(vertices[k]) : k \in DOMAIN vertices}
         IN CHOOSE m \in lens : \A l \in lens : l <= m

\* the id World::add_body gives the body (lib.rs:323-326)
AssignId(body_id, next) == IF body_id = 0 THEN next ELSE body_id

\* self.next_id after World::add_body (lib.rs:323-326)
NextIdAfter(body_id, next) == IF body_id = 0 THEN next + 1 ELSE next

\* World::add_body: the registry after the push
add_body(bodies_, body, next, mu_, t) ==
    LET pv == orbit_to_cartesian(body.orbit, mu_, t)
    IN Append(bodies_,
              [body EXCEPT !.id = AssignId(body.id, next),
                           !.radius = IF body.hull_shape.some
                                      THEN bounding_radius(body.hull_shape.vertices)
                                      ELSE @,
                           !.position = pv[1],
                           !.velocity = pv[2]])

\* the loop of World::step (lib.rs:344-348)
Propagate(bodies_, mu_, t) ==
    [k \in DOMAIN bodies_ |->
        LET pv == orbit_to_cartesian(bodies_[k].orbit, mu_, t)
        IN [bodies_[k] EXCEPT !.position = pv[1], !.velocity = pv[2]]]

\* a retain closure with a strict comparison
KeepStrictlyInside(body) ==
    length_squared(body.position) < DESPAWN_RADIUS_M * DESPAWN_RADIUS_M

\* the closure of retain: body.position.length() <= DESPAWN_RADIUS_M
KeepBody(body) ==
    length_squared(body.position) <= DESPAWN_RADIUS_M * DESPAWN_RADIUS_M

\* World::cull_despawned_bodies
RECURSIVE cull_despawned_bodies(_)
cull_despawned_bodies(bodies_) ==
    IF bodies_ = <<>> THEN <<>>
    ELSE IF KeepBody(Head(bodies_))
    THEN <<Head(bodies_)>> \o cull_despawned_bodies(Tail(bodies_))
    ELSE cull_despawned_bodies(Tail(bodies_))

\* a lookup that takes the first body of the registry, whatever its id
FirstBody(bodies_, id) == IF bodies_ = <<>> THEN 0 ELSE 1

\* World::get_body_mut: the index of the first body with that id, or 0
get_body_mut(bodies_, id) ==
    LET hits == {k \in DOMAIN bodies_ : bodies_[k].id = id}
    IN IF hits = {} THEN 0 ELSE SetMin(hits)

\* the first body whose orbit orbit_to_cartesian would panic on, or 0
FirstInvalid(bodies_) ==
    LET bad == {k \in DOMAIN bodies_ : ~OrbitValid(bodies_[k].orbit)}
    IN IF bad = {} THEN 0 ELSE SetMin(bad)

\* the registry a panic of World::step leaves behind: the loop (lib.rs:344-348)
\* has updated the bodies before body k
PropagatedBefore(bodies_, mu_, t, k) ==
    [j \in DOMAIN bodies_ |->
        IF j < k
        THEN LET pv == orbit_to_cartesian(bodies_[j].orbit, mu_, t)
             IN [bodies_[j] EXCEPT !.position = pv[1], !.velocity = pv[2]]
        ELSE bodies_[j]]

\* the registry with body k on the new orbit and its cached state set
Cached(bodies_, k, new_orbit, now) ==
    [bodies_ EXCEPT ![k] = [@ EXCEPT !.orbit = new_orbit, !.position = now[1],
                                      !.velocity = now[2]]]

\* a burn that caches the state of the new orbit at its epoch, the burn time
RepropagatedToBurn(bodies_, k, new_orbit, mu_, t) ==
    IF orbit_to_cartesian_panic(new_orbit) # NoPanic
    THEN [bodies |-> [bodies_ EXCEPT ![k].orbit = new_orbit],
          panic |-> orbit_to_cartesian_panic(new_orbit)]
    ELSE [bodies |-> Cached(bodies_, k, new_orbit,
                            orbit_to_cartesian(new_orbit, mu_, new_orbit.epoch)),
          panic |-> NoPanic]

\* body.orbit = new_orbit and the propagation to sim_time (lib.rs:369-372); its
\* panic comes after body.orbit was assigned
Repropagated(bodies_, k, new_orbit, mu_, t) ==
    IF orbit_to_cartesian_panic(new_orbit) # NoPanic
    THEN [bodies |-> [bodies_ EXCEPT ![k].orbit = new_orbit],
          panic |-> orbit_to_cartesian_panic(new_orbit)]
    ELSE [bodies |-> Cached(bodies_, k, new_orbit,
                            orbit_to_cartesian(new_orbit, mu_, t)),
          panic |-> NoPanic]

\* cartesian_to_orbit at the burn and what follows (lib.rs:368-372)
Rederived(bodies_, k, pos_at_burn, new_velocity, event, mu_, t) ==
    IF cartesian_to_orbit_panic(pos_at_burn, new_velocity, mu_) # NoPanic
    THEN [bodies |-> bodies_,
          panic |-> cartesian_to_orbit_panic(pos_at_burn, new_velocity, mu_)]
    ELSE Repropagated(bodies_, k,
                      cartesian_to_orbit(pos_at_burn, new_velocity, mu_, event.time),
                      mu_, t)

\* new_velocity = vel_at_burn.add(event.delta_v) and what follows (lib.rs:367-372)
Burnt(bodies_, k, at_burn, event, mu_, t) ==
    Rederived(bodies_, k, at_burn[1], vec_add(at_burn[2], event.delta_v), event, mu_, t)

\* the body of `if let Some(body)` for the body at index k (lib.rs:366-372)
ThrustBody(bodies_, k, event, mu_, t) ==
    IF orbit_to_cartesian_panic(bodies_[k].orbit) # NoPanic
    THEN [bodies |-> bodies_, panic |-> orbit_to_cartesian_panic(bodies_[k].orbit)]
    ELSE Burnt(bodies_, k, orbit_to_cartesian(bodies_[k].orbit, mu_, event.time),
               event, mu_, t)

\* the lookup of apply_thrust_event and what follows (lib.rs:365-373)
ThrustFound(bodies_, k, event, mu_, t) ==
    IF k = 0 THEN [bodies |-> bodies_, panic |-> NoPanic]
    ELSE ThrustBody(bodies_, k, event, mu_, t)

\* World::apply_thrust_event: the registry it leaves and its panic message
apply_thrust_event(bodies_, event, mu_, t) ==
    ThrustFound(bodies_, get_body_mut(bodies_, event.body_id), event, mu_, t)

\* the cached positions and velocities of the bodies, not propagated
CachedStates(bodies_, mu_, target_time) ==
    [k \in DOMAIN bodies_ |-> <<bodies_[k].position, bodies_[k].velocity>>]

\* the positions and velocities detect_collisions tests (lib.rs:380-382)
FutureStates(bodies_, mu_, target_time) ==
    [k \in DOMAIN bodies_ |-> orbit_to_cartesian(bodies_[k].orbit, mu_, target_time)]

\* dist <= body_a.radius + body_b.radius (lib.rs:390-391)
Overlap(pos_a, pos_b, radius_a, radius_b) ==
    length_squared(vec_sub(pos_a, pos_b)) <= (radius_a + radius_b) * (radius_a + radius_b)

\* the pair loop of detect_collisions (lib.rs:384-403), pairs (i, j) in the
\* order i = 1..n, j = i+1..n; p numbers the pairs of the n x n square row by row
RECURSIVE PairEvents(_, _, _, _)
PairEvents(bodies_, future, target_time, p) ==
    IF p = 0 THEN <<>>
    ELSE LET n == Len(bodies_)
             i == ((p - 1) \div n) + 1
             j == ((p - 1) % n) + 1
             rest == PairEvents(bodies_, future, target_time, p - 1)
         IN IF i < j /\ Overlap(future[i][1], future[j][1],
                                bodies_[i].radius, bodies_[j].radius)
            THEN Append(rest,
                   [time |-> target_time, body_a |-> bodies_[i].id,
                    body_b |-> bodies_[j].id,
                    relative_velocity |-> vec_sub(future[j][2], future[i][2]),
                    contact_point |-> <<(future[i][1][1] + future[j][1][1]) \div 2,
                                        (future[i][1][2] + future[j][1][2]) \div 2>>])
            ELSE rest

\* altitude <= self.planet_radius + body.radius (lib.rs:406-407)
HitsPlanet(position, radius, planet_radius) ==
    length_squared(position) <= (planet_radius + radius) * (planet_radius + radius)

\* the planet loop of detect_collisions (lib.rs:405-421)
RECURSIVE PlanetEvents(_, _, _, _, _)
PlanetEvents(bodies_, future, target_time, planet_radius, k) ==
    IF k = 0 THEN <<>>
    ELSE LET rest == PlanetEvents(bodies_, future, target_time, planet_radius, k - 1)
             position == future[k][1]
             altitude == length(position)
         IN IF HitsPlanet(position, bodies_[k].radius, planet_radius)
            THEN Append(rest,
                   [time |-> target_time, body_a |-> bodies_[k].id, body_b |-> 0,
                    relative_velocity |-> future[k][2],
                    contact_point |->
                        IF altitude > 0
                        THEN <<MulDiv(position[1], planet_radius, altitude),
                               MulDiv(position[2], planet_radius, altitude)>>
                        ELSE <<0, 0>>])
            ELSE rest

\* World::detect_collisions
detect_collisions(bodies_, mu_, t, dt, planet_radius) ==
    LET target_time == t + dt
        future == FutureStates(bodies_, mu_, target_time)
    IN PairEvents(bodies_, future, target_time, Len(bodies_) * Len(bodies_))
         \o PlanetEvents(bodies_, future, target_time, planet_radius, Len(bodies_))

(***************************************************************************)
(* Bounds of the model and the inputs it draws                             *)
(***************************************************************************)
\* InteriorWorld::step calls in one run
MaxTicks == 2

\* commands queued in one run
MaxCmds == 2

\* operations (commands queued and ticks together) in one run
MaxOps == 3

\* the dt of a tick, in ms: none, one default atmosphere tick, two of them
Dts == {0, 250, 500}

\* a configuration file with a slower atmosphere tick (0.5 s) and a faster
\* dispenser (2 kg/s)
FastFlowConfig ==
    [DefaultConfig EXCEPT !.tick_interval_s = 500, !.dispenser_flow_kg_per_s = 20000]

\* a ship late in its life: reactor fuel and tank O2 nearly used up (the fields
\* are public, and the tests of interior.rs set such fields by assignment)
LateShip(iw) ==
    [iw EXCEPT !.ship.devices[1].data.fuel_kg = 1000,
               !.ship.devices[2].data.o2_kg = 30000]

\* the states a run starts in: config and interior
Scenarios ==
    { [config |-> DefaultConfig, interior |-> new_test_ship(DefaultConfig)],
      [config |-> DefaultConfig, interior |-> LateShip(new_test_ship(DefaultConfig))],
      [config |-> FastFlowConfig, interior |-> new_test_ship(FastFlowConfig)] }

\* the commands a client sends: steps onto the bed and along the floor, a sleep
\* toggle, and an interaction with each interactive device, with a bare floor
\* tile and with a coordinate outside the grid
Commands ==
    { [type |-> "MovePawn", dx |-> 0, dy |-> -1],
      [type |-> "MovePawn", dx |-> -1, dy |-> 0],
      [type |-> "ToggleSleep"],
      [type |-> "InteractAt", x |-> 2, y |-> 2],
      [type |-> "InteractAt", x |-> 6, y |-> 7],
      [type |-> "InteractAt", x |-> 2, y |-> 5],
      [type |-> "InteractAt", x |-> 5, y |-> 2],
      [type |-> "InteractAt", x |-> 4, y |-> 4],
      [type |-> "InteractAt", x |-> 4, y |-> 2],
      [type |-> "InteractAt", x |-> 1, y |-> 1],
      [type |-> "InteractAt", x |-> 12, y |-> 8] }

\* the operations so far, by kind
NoneYet == [ticks |-> 0, cmds |-> 0, adds |-> 0, detects |-> 0, sets |-> 0,
            thrusts |-> 0, subs |-> 0]

Ops == count.ticks + count.cmds + count.adds + count.detects + count.thrusts

\* the library used without the server of main.rs
NoServer == [pc |-> "none"]

Snapshot == [interior |-> interior, bodies |-> bodies, sim_time |-> sim_time,
             next_id |-> next_id]

(***************************************************************************)
(* Spec: the ship interior under queued commands and ticks                 *)
(***************************************************************************)
WorldIdle ==
    UNCHANGED <<config, mu, sim_time, bodies, next_id, events, server>>

Init ==
    /\ \E s \in Scenarios : config = s.config /\ interior = s.interior
    /\ mu = 0
    /\ sim_time = 0
    /\ bodies = <<>>
    /\ next_id = 1
    /\ events = <<>>
    /\ last_op = [op |-> "new"]
    /\ prev = Snapshot
    /\ tick_log = <<>>
    /\ origin = interior
    /\ elapsed = 0
    /\ count = NoneYet
    /\ server = NoServer

\* InteriorWorld::queue_command
QueueCommand(command) ==
    /\ count.cmds < MaxCmds
    /\ Ops < MaxOps
    /\ interior' = queue_command(interior, command)
    /\ last_op' = [op |-> "queue_command", command |-> command]
    /\ prev' = Snapshot
    /\ tick_log' = <<>>
    /\ count' = [count EXCEPT !.cmds = @ + 1]
    /\ UNCHANGED <<origin, elapsed>>
    /\ WorldIdle

\* InteriorWorld::step
Step(dt) ==
    /\ count.ticks < MaxTicks
    /\ Ops < MaxOps
    /\ LET st == interior_step_logged(interior, dt, config)
       IN /\ interior' = st.w
          /\ tick_log' = st.log
          /\ origin' = IF interior.command_queue = <<>> THEN origin ELSE st.w
          /\ elapsed' = IF interior.command_queue = <<>> THEN elapsed + dt ELSE 0
    /\ last_op' = [op |-> "step", dt |-> dt]
    /\ prev' = Snapshot
    /\ count' = [count EXCEPT !.ticks = @ + 1]
    /\ WorldIdle

Next ==
    \/ \E command \in Commands : QueueCommand(command)
    \/ \E dt \in Dts : Step(dt)

Spec == Init /\ [][Next]_vars

(***************************************************************************)
(* SpecAtmos: step_atmosphere called directly on small grids, as the test  *)
(* atmos_diffusion_conserves_mass calls it after assigning the cells       *)
(***************************************************************************)
\* step_atmosphere calls in one run
MaxAtmosSteps == 2

\* the dt of a direct call, in ms: factor 0.04, 0.1 and the 0.5 cap
AtmosDts == {100, 250, 1250}

\* the shapes of the grids: width and height
AtmosShapes == {<<2, 2>>, <<3, 1>>}

\* what a tile of such a grid holds: a wall (vacuum), or a floor with vacuum,
\* with a trace below the 1e-6 kg threshold, with a little O2, or with air
AtmosFills ==
    { [tile_type |-> "Wall", o2_kg |-> 0, n2_kg |-> 0, co2_kg |-> 0],
      [tile_type |-> "Floor", o2_kg |-> 0, n2_kg |-> 0, co2_kg |-> 0],
      [tile_type |-> "Floor", o2_kg |-> 4, n2_kg |-> 0, co2_kg |-> 3],
      [tile_type |-> "Floor", o2_kg |-> 1000, n2_kg |-> 0, co2_kg |-> 0],
      [tile_type |-> "Floor", o2_kg |-> 300, n2_kg |-> 90000, co2_kg |-> 20] }

\* a ship of the given shape without devices, its tiles filled as given, its
\* hull shape the one of its tiles
GridShip(width, height, fill) ==
    rebuild_hull_shape(
    [width |-> width,
     height |-> height,
     tiles |-> [i \in 0 .. (width * height - 1) |-> fill[i].tile_type],
     tile_atmos |-> [i \in 0 .. (width * height - 1) |->
                       [o2_kg |-> fill[i].o2_kg, n2_kg |-> fill[i].n2_kg,
                        co2_kg |-> fill[i].co2_kg,
                        temp_c |-> DefaultConfig.baseline_temp_c]],
     power |-> [net_kw |-> 0, total_production_kw |-> 0, total_consumption_kw |-> 0],
     devices |-> <<>>,
     hull_shape |-> [vertices |-> <<>>]])

InitAtmos ==
    /\ config = DefaultConfig
    /\ \E shape \in AtmosShapes :
         \E fill \in [0 .. (shape[1] * shape[2] - 1) -> AtmosFills] :
            interior = [new_test_ship(DefaultConfig) EXCEPT
                          !.ship = GridShip(shape[1], shape[2], fill),
                          !.pawn.x = 0, !.pawn.y = 0]
    /\ mu = 0
    /\ sim_time = 0
    /\ bodies = <<>>
    /\ next_id = 1
    /\ events = <<>>
    /\ last_op = [op |-> "new"]
    /\ prev = Snapshot
    /\ tick_log = <<>>
    /\ origin = interior
    /\ elapsed = 0
    /\ count = NoneYet
    /\ server = NoServer

\* ShipInterior::step_atmosphere, called on interior.ship
StepAtmosphere(dt) ==
    /\ count.ticks < MaxAtmosSteps
    /\ interior' = [interior EXCEPT !.ship = step_atmosphere(@, dt)]
    /\ last_op' = [op |-> "step_atmosphere", dt |-> dt]
    /\ prev' = Snapshot
    /\ count' = [count EXCEPT !.ticks = @ + 1]
    /\ UNCHANGED <<tick_log, origin, elapsed>>
    /\ WorldIdle

NextAtmos == \E dt \in AtmosDts : StepAtmosphere(dt)

SpecAtmos == InitAtmos /\ [][NextAtmos]_vars

\* the tolerance of the test atmos_diffusion_conserves_mass: 1e-5 kg
MassTolerance == 100

\* C1: one call of step_atmosphere with dt > 0 on non-negative masses leaves the
\* total of O2, of N2 and of CO2 over all tiles unchanged (here: even only to
\* within the 1e-5 kg the test allows)
C1_DiffusionConservesMass ==
    (last_op.op = "step_atmosphere" /\ last_op.dt > 0) =>
        LET before == total_atmos(prev.interior.ship)
            after == total_atmos(interior.ship)
        IN /\ Abs(after.o2_kg - before.o2_kg) <= MassTolerance
           /\ Abs(after.n2_kg - before.n2_kg) <= MassTolerance
           /\ Abs(after.co2_kg - before.co2_kg) <= MassTolerance

(***************************************************************************)
(* SpecWorld: the body registry under add_body, World::step and            *)
(* detect_collisions.  Time is in ms and angles in quarter turns, so the   *)
(* orbits below are scale models: mu is chosen to give them mean motions   *)
(* of whole quarter turns per ms.                                          *)
(***************************************************************************)
\* World::add_body calls in one run
MaxAdds == 2

\* World::step calls in one run
MaxWorldTicks == 2

\* World::detect_collisions calls in one run
MaxDetects == 1

\* operations in one run
MaxWorldOps == 3

\* the dt of World::step and of detect_collisions, in ms
WorldDts == {0, 1, 2}

\* the mu the world is built with: mean motion 1 quarter turn per ms at a = 2 and
\* at a = 703, 3 at a = 4, 2 at a = 500, none at a = 1
WorldMu == 500000000

CircularOrbit(a, m0) ==
    [semi_major_axis |-> a, eccentricity |-> 0, arg_of_periapsis |-> 0,
     mean_anomaly_at_epoch |-> m0, epoch |-> 0]

\* periapsis at 250, apoapsis at 750 planet radii: outside the despawn radius
\* half of the time
EccentricOrbit ==
    [semi_major_axis |-> 500, eccentricity |-> 500, arg_of_periapsis |-> 0,
     mean_anomaly_at_epoch |-> 0, epoch |-> 0]

\* what a caller hands to add_body (position and velocity are overwritten)
Body(id, orbit, radius, hull_shape) ==
    [id |-> id, orbit |-> orbit, radius |-> radius, hull_shape |-> hull_shape,
     position |-> <<0, 0>>, velocity |-> <<0, 0>>]

NoHull == [some |-> FALSE, vertices |-> <<>>]

\* the bodies build_initial_world registers, with the ids the caller chose: a
\* ship low over the planet, debris on the eccentric orbit, an asteroid above
InitialBodies ==
    << Body(1, CircularOrbit(2, 0), 1, NoHull),
       Body(3, EccentricOrbit, 0, NoHull),
       Body(2, CircularOrbit(4, 0), 1, NoHull) >>

\* the bodies a caller adds later: beyond the despawn radius, exactly on it, on
\* the planet's surface with a hull of bounding radius 1, and two with an id of
\* the caller's choice
NewBodies ==
    { Body(0, CircularOrbit(DESPAWN_RADIUS_M + 1, 0), 0, NoHull),
      Body(0, CircularOrbit(DESPAWN_RADIUS_M, 0), 0, NoHull),
      Body(0, CircularOrbit(1, 1), 7,
           [some |-> TRUE, vertices |-> << <<1, 0>>, <<0, 1>>, <<0, 0>> >>]),
      Body(1, CircularOrbit(4, 2), 1, NoHull),
      Body(9, CircularOrbit(2, 0), 0, NoHull) }

RECURSIVE AddAll(_, _, _, _, _)
AddAll(bodies_, new, next, mu_, t) ==
    IF new = <<>> THEN bodies_
    ELSE AddAll(add_body(bodies_, Head(new), next, mu_, t), Tail(new),
                NextIdAfter(Head(new).id, next), mu_, t)

InitWorld ==
    /\ config = DefaultConfig
    /\ interior = new_test_ship(DefaultConfig)
    /\ mu = WorldMu
    /\ sim_time = 0
    /\ bodies \in {<<>>, AddAll(<<>>, InitialBodies, 1, WorldMu, 0)}
    /\ next_id = 1
    /\ events = <<>>
    /\ last_op = [op |-> "new"]
    /\ prev = Snapshot
    /\ tick_log = <<>>
    /\ origin = interior
    /\ elapsed = 0
    /\ count = NoneYet
    /\ server = NoServer

\* the operations of World that can panic
WorldOps == {"add_body", "world_step", "detect_collisions", "apply_thrust_event"}

\* the last operation panicked: the process has aborted
Panicked == last_op.op \in WorldOps /\ last_op.panic # NoPanic

\* World::add_body; the panic of orbit_to_cartesian (lib.rs:330) comes after
\* next_id was advanced and before the push
AddBody(body) ==
    /\ ~Panicked
    /\ count.adds < MaxAdds
    /\ Ops < MaxWorldOps
    /\ bodies' = IF orbit_to_cartesian_panic(body.orbit) = NoPanic
                 THEN add_body(bodies, body, next_id, mu, sim_time)
                 ELSE bodies
    /\ next_id' = NextIdAfter(body.id, next_id)
    /\ last_op' = [op |-> "add_body", body |-> body,
                   panic |-> orbit_to_cartesian_panic(body.orbit)]
    /\ prev' = Snapshot
    /\ count' = [count EXCEPT !.adds = @ + 1]
    /\ UNCHANGED <<config, interior, mu, sim_time, events, tick_log, origin, elapsed,
                   server>>

\* World::step; a panic of orbit_to_cartesian (lib.rs:345) comes after sim_time
\* was advanced and the bodies before the offending one were updated, and before
\* the cull and the interior step
WorldStep(dt) ==
    /\ ~Panicked
    /\ count.ticks < MaxWorldTicks
    /\ Ops < MaxWorldOps
    /\ sim_time' = sim_time + dt
    /\ IF FirstInvalid(bodies) = 0
       THEN /\ bodies' = cull_despawned_bodies(Propagate(bodies, mu, sim_time + dt))
            /\ LET st == interior_step_logged(interior, dt, config)
               IN interior' = st.w /\ tick_log' = st.log
            /\ elapsed' = elapsed + dt
            /\ last_op' = [op |-> "world_step", dt |-> dt, panic |-> NoPanic]
       ELSE /\ bodies' = PropagatedBefore(bodies, mu, sim_time + dt, FirstInvalid(bodies))
            /\ last_op' = [op |-> "world_step", dt |-> dt,
                           panic |-> orbit_to_cartesian_panic(
                                         bodies[FirstInvalid(bodies)].orbit)]
            /\ UNCHANGED <<interior, tick_log, elapsed>>
    /\ prev' = Snapshot
    /\ count' = [count EXCEPT !.ticks = @ + 1]
    /\ UNCHANGED <<config, mu, next_id, events, origin, server>>

\* World::detect_collisions; a panic of orbit_to_cartesian (lib.rs:381) comes
\* before any event is returned
DetectCollisions(dt) ==
    /\ ~Panicked
    /\ count.detects < MaxDetects
    /\ Ops < MaxWorldOps
    /\ IF FirstInvalid(bodies) = 0
       THEN /\ events' = detect_collisions(bodies, mu, sim_time, dt, PLANET_RADIUS_M)
            /\ last_op' = [op |-> "detect_collisions", dt |-> dt, panic |-> NoPanic]
       ELSE /\ events' = events
            /\ last_op' = [op |-> "detect_collisions", dt |-> dt,
                           panic |-> orbit_to_cartesian_panic(
                                         bodies[FirstInvalid(bodies)].orbit)]
    /\ prev' = Snapshot
    /\ count' = [count EXCEPT !.detects = @ + 1]
    /\ UNCHANGED <<config, interior, mu, sim_time, bodies, next_id, tick_log,
                   origin, elapsed, server>>

NextWorld ==
    \/ \E body \in NewBodies : AddBody(body)
    \/ \E dt \in WorldDts : WorldStep(dt)
    \/ \E dt \in WorldDts : DetectCollisions(dt)

SpecWorld == InitWorld /\ [][NextWorld]_vars

(***************************************************************************)
(* Properties of the interior                                              *)
(***************************************************************************)
\* the devices of a ship whose payload is of the given kind
DevicesOfKind(ship, kind) ==
    {i \in 1..Len(ship.devices) : ship.devices[i].data.kind = kind}

\* the gas totals of the tiles before the call logged at position i of tick_log
AtmosBefore(i) ==
    IF i = 1 THEN total_atmos(prev.interior.ship) ELSE tick_log[i - 1].atmos

\* two gas totals agree to within the tolerance
SameTotals(a, b) ==
    /\ Abs(a.o2_kg - b.o2_kg) <= MassTolerance
    /\ Abs(a.n2_kg - b.n2_kg) <= MassTolerance
    /\ Abs(a.co2_kg - b.co2_kg) <= MassTolerance

\* C2: a step applies the commands queued before it in FIFO order, each once,
\* all before the device/power step, the needs update and every atmosphere
\* sub-step, and leaves the queue empty
C2_CommandsFifoBeforePhysics ==
    last_op.op = "step" =>
        LET queued == prev.interior.command_queue
            n == Len(queued)
        IN /\ Len(tick_log) >= n + 2
           /\ \A i \in 1..n :
                 tick_log[i].ev = "command" /\ tick_log[i].command = queued[i]
           /\ tick_log[n + 1].ev = "ship_step"
           /\ tick_log[n + 2].ev = "update_pawn_needs"
           /\ \A i \in (n + 1)..Len(tick_log) : tick_log[i].ev # "command"
           /\ interior.command_queue = <<>>

\* two different commands were queued and the step that applied them also ran
\* an atmosphere sub-step
C2_Witness ==
    /\ last_op.op = "step"
    /\ Len(prev.interior.command_queue) = 2
    /\ prev.interior.command_queue[1] # prev.interior.command_queue[2]
    /\ \E i \in 1..Len(tick_log) : tick_log[i].ev = "step_atmosphere"

\* C3: within a step only the device step (dispenser injection) and the pawn's
\* breathing change the total of a gas over the tiles: every command, the needs
\* update and every diffusion call leave the three totals as they found them
C3_OnlyInjectionAndBreathing ==
    last_op.op = "step" =>
        \A i \in 1..Len(tick_log) :
            tick_log[i].ev \in {"command", "update_pawn_needs", "step_atmosphere"}
                => SameTotals(tick_log[i].atmos, AtmosBefore(i))

\* the tile atmospheres of two ships agree cell by cell to within the tolerance
SameAtmosphere(a, b) ==
    /\ DOMAIN a = DOMAIN b
    /\ \A i \in DOMAIN a :
          /\ Abs(a[i].o2_kg - b[i].o2_kg) <= MassTolerance
          /\ Abs(a[i].n2_kg - b[i].n2_kg) <= MassTolerance
          /\ Abs(a[i].co2_kg - b[i].co2_kg) <= MassTolerance

\* C4: the steps taken since origin (none of them had a command to apply) leave
\* the tile atmosphere that a single step over their whole elapsed time leaves
C4_ChunkingIndependent ==
    (last_op.op = "step" /\ prev.interior.command_queue = <<>>) =>
        SameAtmosphere(interior.ship.tile_atmos,
                       interior_step(origin, elapsed, config).ship.tile_atmos)

\* C8: reactor fuel is never negative and never larger than in the previous
\* state, and a reactor without fuel has its payload offline: once the fuel is
\* zero it stays zero and the payload stays offline under every tick and command
C8_ReactorShutoffOneWay ==
    \A i \in DevicesOfKind(interior.ship, "Reactor") :
        LET data == interior.ship.devices[i].data
            before == prev.interior.ship.devices[i].data
        IN /\ data.fuel_kg >= 0
           /\ data.fuel_kg <= before.fuel_kg
           /\ data.fuel_kg = 0 => ~data.online
           /\ (before.fuel_kg = 0 /\ ~before.online) => (data.fuel_kg = 0 /\ ~data.online)

\* a step applied an InteractAt command on the tile of a reactor that had run
\* out of fuel, and ran the device step on it afterwards
C8_Witness ==
    /\ last_op.op = "step"
    /\ \E i \in DevicesOfKind(interior.ship, "Reactor") :
          /\ prev.interior.ship.devices[i].data.fuel_kg = 0
          /\ \E k \in 1..Len(prev.interior.command_queue) :
                LET command == prev.interior.command_queue[k]
                IN /\ command.type = "InteractAt"
                   /\ device_contains(interior.ship.devices[i], command.x, command.y)

\* the flags of a device that only an interaction may change
DeviceFlags(device) ==
    [online |-> device.online,
     open |-> IF device.data.kind = "DoorDevice" THEN device.data.open ELSE FALSE,
     light |-> IF device.data.kind = "Light" THEN device.data.online ELSE FALSE,
     active |-> IF device.data.kind = "Dispenser" THEN device.data.active ELSE FALSE]

\* the reactor payload at index i went offline in the last operation because its
\* fuel reached zero in it
ReactorRanDry(i) ==
    LET data == interior.ship.devices[i].data
        before == prev.interior.ship.devices[i].data
    IN /\ before.online /\ ~data.online
       /\ before.fuel_kg > 0 /\ data.fuel_kg = 0

\* C9: a step with an empty command queue changes no device's online flag, door
\* open flag, light online flag or dispenser active flag; a reactor payload
\* changes its online flag only by going offline as its fuel reaches zero
C9_TickKeepsFlags ==
    (last_op.op = "step" /\ prev.interior.command_queue = <<>>) =>
        \A i \in 1..Len(interior.ship.devices) :
            LET device == interior.ship.devices[i]
                before == prev.interior.ship.devices[i]
            IN /\ DeviceFlags(device) = DeviceFlags(before)
               /\ device.data.kind = "Reactor" =>
                     (device.data.online = before.data.online \/ ReactorRanDry(i))

\* a step with an empty queue and dt > 0 in which a reactor ran dry while a
\* light stayed online
C9_Witness ==
    /\ last_op.op = "step" /\ last_op.dt > 0
    /\ prev.interior.command_queue = <<>>
    /\ \E i \in DevicesOfKind(interior.ship, "Reactor") : ReactorRanDry(i)
    /\ \E i \in DevicesOfKind(interior.ship, "Light") :
          interior.ship.devices[i].data.online

\* the dispensers of a ship that are online, active and linked to a Tank
FeedingDispensers(ship) ==
    {i \in DevicesOfKind(ship, "Dispenser") :
        /\ ship.devices[i].online /\ ship.devices[i].data.active
        /\ ship.devices[i].data.connected_tank_id # 0
        /\ FindLinkedDevice(ship.devices, i, ship.devices[i].data.connected_tank_id) # 0
        /\ ship.devices[FindLinkedDevice(ship.devices, i,
                          ship.devices[i].data.connected_tank_id)].data.kind = "Tank"}

\* the gas totals of the given gas type
GasOf(totals, gas) ==
    CASE gas = "O2" -> totals.o2_kg
      [] gas = "N2" -> totals.n2_kg
      [] gas = "CO2" -> totals.co2_kg
      [] OTHER -> 0

\* C10: in the device step of a tick an online, active dispenser linked to a Tank
\* takes min(rate * dt, available) of its gas out of the tank, no tank gas is
\* negative, and (for O2, N2, CO2 with an output tile) tank plus tiles hold as
\* much of that gas after the device step as before it
C10_DispenserWithdrawal ==
    last_op.op = "step" =>
        LET k == Len(prev.interior.command_queue) + 1
            ship == interior.ship
        IN /\ \A j \in DevicesOfKind(ship, "Tank") :
                 \A gas \in GasTypes : TankGas(ship.devices[j].data, gas) >= 0
           /\ \A i \in FeedingDispensers(ship) :
                 LET data == ship.devices[i].data
                     j == FindLinkedDevice(ship.devices, i, data.connected_tank_id)
                     had == TankGas(prev.interior.ship.devices[j].data, data.gas_type)
                     has == TankGas(ship.devices[j].data, data.gas_type)
                     target == pick_device_output_tile(ship, ship.devices[i].x,
                                   ship.devices[i].y, ship.devices[i].w, ship.devices[i].h)
                 IN /\ has = had - Min(data.rate_kg_per_s * last_op.dt, had)
                    /\ (data.gas_type # "Xenon" /\ target.some) =>
                          has + GasOf(tick_log[k].atmos, data.gas_type)
                             = had + GasOf(AtmosBefore(k), data.gas_type)

\* a step with dt > 0 in which a feeding dispenser asked for more than its tank
\* held and emptied it
C10_Witness ==
    /\ last_op.op = "step" /\ last_op.dt > 0
    /\ \E i \in FeedingDispensers(interior.ship) :
          LET data == interior.ship.devices[i].data
              j == FindLinkedDevice(interior.ship.devices, i, data.connected_tank_id)
              had == TankGas(prev.interior.ship.devices[j].data, data.gas_type)
          IN /\ had > 0
             /\ had < data.rate_kg_per_s * last_op.dt
             /\ TankGas(interior.ship.devices[j].data, data.gas_type) = 0

(***************************************************************************)
(* Properties of the body registry                                         *)
(***************************************************************************)
\* C5: every body in the registry has a nonzero id and no two bodies share one
C5_IdsNonzeroUnique ==
    /\ \A k \in DOMAIN bodies : bodies[k].id # 0
    /\ \A k \in DOMAIN bodies : \A l \in DOMAIN bodies :
          bodies[k].id = bodies[l].id => k = l

\* the part of C5 that the code keeps: no body in the registry has id 0
IdsNonzero == \A k \in DOMAIN bodies : bodies[k].id # 0

\* the body's position is within the despawn radius
WithinDespawnRadius(body) ==
    length_squared(body.position) <= DESPAWN_RADIUS_M * DESPAWN_RADIUS_M

\* the registry before the last operation, each body moved to where its orbit
\* puts it at the present sim_time
Propagated ==
    [k \in DOMAIN prev.bodies |->
        [prev.bodies[k] EXCEPT
            !.position = orbit_to_cartesian(prev.bodies[k].orbit, mu, sim_time)[1],
            !.velocity = orbit_to_cartesian(prev.bodies[k].orbit, mu, sim_time)[2]]]

\* C6: after World::step the registry holds exactly the bodies whose propagated
\* position is within the despawn radius, at these positions and in the order
\* they had before the step
C6_CullKeepsExactlyTheNear ==
    last_op.op = "world_step" =>
        /\ sim_time = prev.sim_time + last_op.dt
        /\ bodies = SelectSeq(Propagated, WithinDespawnRadius)
        /\ \A k \in DOMAIN bodies : WithinDespawnRadius(bodies[k])

\* a step culled a body that stood between two bodies that stayed, and kept a
\* body exactly on the despawn radius
C6_Witness ==
    /\ last_op.op = "world_step"
    /\ \E k \in DOMAIN Propagated :
          /\ ~WithinDespawnRadius(Propagated[k])
          /\ \E j \in DOMAIN Propagated : j < k /\ WithinDespawnRadius(Propagated[j])
          /\ \E l \in DOMAIN Propagated : l > k /\ WithinDespawnRadius(Propagated[l])
    /\ \E k \in DOMAIN bodies :
          length_squared(bodies[k].position) = DESPAWN_RADIUS_M * DESPAWN_RADIUS_M

\* the position the orbit of body k predicts for the given time
PredictedPosition(k, time) == orbit_to_cartesian(bodies[k].orbit, mu, time)[1]

\* the bodies k and l are predicted within the sum of their radii at that time
PredictedTouch(k, l, time) ==
    length_squared(vec_sub(PredictedPosition(k, time), PredictedPosition(l, time)))
        <= (bodies[k].radius + bodies[l].radius) * (bodies[k].radius + bodies[l].radius)

\* body k is predicted within planet_radius + radius of the origin at that time
PredictedImpact(k, time) ==
    length_squared(PredictedPosition(k, time))
        <= (PLANET_RADIUS_M + bodies[k].radius) * (PLANET_RADIUS_M + bodies[k].radius)

\* C7: detect_collisions(dt) returns one body-body event for every pair of
\* registry bodies predicted to touch at sim_time + dt and none for any other
\* pair, and one event with body_b = 0 for every body predicted to reach the
\* planet and none for any other body, all stamped sim_time + dt.  Pairs and
\* bodies are counted by registry position, events by the ids they carry.
C7_EventsMatchPredictions ==
    last_op.op = "detect_collisions" =>
        LET time == sim_time + last_op.dt
            ids == {bodies[k].id : k \in DOMAIN bodies}
            touching(a, b) ==
                {pair \in (DOMAIN bodies) \X (DOMAIN bodies) :
                    /\ pair[1] < pair[2]
                    /\ {bodies[pair[1]].id, bodies[pair[2]].id} = {a, b}
                    /\ PredictedTouch(pair[1], pair[2], time)}
            reported(a, b) ==
                {e \in DOMAIN events :
                    events[e].body_b # 0 /\ {events[e].body_a, events[e].body_b} = {a, b}}
            impacting(a) ==
                {k \in DOMAIN bodies : bodies[k].id = a /\ PredictedImpact(k, time)}
            grounded(a) ==
                {e \in DOMAIN events : events[e].body_b = 0 /\ events[e].body_a = a}
        IN /\ \A e \in DOMAIN events :
                 /\ events[e].time = time
                 /\ events[e].body_a \in ids
                 /\ events[e].body_b \in ids \cup {0}
           /\ \A a \in ids : \A b \in ids :
                 Cardinality(reported(a, b)) = Cardinality(touching(a, b))
           /\ \A a \in ids : Cardinality(grounded(a)) = Cardinality(impacting(a))

\* a call with dt > 0 that reported a planet impact and a pair which the cached
\* positions show apart
C7_Witness ==
    /\ last_op.op = "detect_collisions" /\ last_op.dt > 0
    /\ \E e \in DOMAIN events : events[e].body_b = 0
    /\ \E k \in DOMAIN bodies : \E l \in DOMAIN bodies :
          /\ k < l
          /\ PredictedTouch(k, l, sim_time + last_op.dt)
          /\ ~Overlap(bodies[k].position, bodies[l].position,
                      bodies[k].radius, bodies[l].radius)
          /\ \E e \in DOMAIN events :
                events[e].body_a = bodies[k].id /\ events[e].body_b = bodies[l].id

(***************************************************************************)
(* SpecTiles: set_tile_type called directly on a two-tile grid whose cells *)
(* were assigned beforehand                                                *)
(***************************************************************************)
\* set_tile_type calls in one run
MaxSets == 2

\* what a tile of the grid holds at the start: the fills of AtmosFills, a closed
\* door with air, and a floor holding exactly the 1e-6 kg below which
\* step_atmosphere empties a cell
TileFills ==
    AtmosFills \cup
    { [tile_type |-> "DoorClosed", o2_kg |-> 300, n2_kg |-> 90000, co2_kg |-> 20],
      [tile_type |-> "Floor", o2_kg |-> 0, n2_kg |-> MassEpsilon, co2_kg |-> 0] }

\* the coordinates handed to set_tile_type: both tiles, and one beyond each edge
TileCoords == {<<0, 0>>, <<1, 0>>, <<2, 0>>, <<0, 1>>}

InitTiles ==
    /\ config = DefaultConfig
    /\ \E fill \in [0 .. 1 -> TileFills] :
          interior = [new_test_ship(DefaultConfig) EXCEPT
                        !.ship = GridShip(2, 1, fill), !.pawn.x = 0, !.pawn.y = 0]
    /\ mu = 0
    /\ sim_time = 0
    /\ bodies = <<>>
    /\ next_id = 1
    /\ events = <<>>
    /\ last_op = [op |-> "new"]
    /\ prev = Snapshot
    /\ tick_log = <<>>
    /\ origin = interior
    /\ elapsed = 0
    /\ count = NoneYet
    /\ server = NoServer

\* ShipInterior::set_tile_type, called on interior.ship
SetTileType(x, y, new_type) ==
    /\ count.sets < MaxSets
    /\ interior' = [interior EXCEPT !.ship = set_tile_type(@, x, y, new_type, config)]
    /\ last_op' = [op |-> "set_tile_type", x |-> x, y |-> y, tile_type |-> new_type]
    /\ prev' = Snapshot
    /\ count' = [count EXCEPT !.sets = @ + 1]
    /\ UNCHANGED <<tick_log, origin, elapsed>>
    /\ WorldIdle

NextTiles ==
    \E c \in TileCoords : \E new_type \in TileTypes : SetTileType(c[1], c[2], new_type)

SpecTiles == InitTiles /\ [][NextTiles]_vars

\* the three gas masses of a cell
GasMasses(cell) == <<cell.o2_kg, cell.n2_kg, cell.co2_kg>>

PawnPlaced(iw, x, y, status, needs) ==
    [iw EXCEPT !.pawn.x = x, !.pawn.y = y, !.pawn.status = status,
               !.pawn.needs = needs]

\* every cell of a breathable tile holding the given O2 mass
WithO2(iw, o2_kg) ==
    [iw EXCEPT !.ship.tile_atmos =
        [i \in DOMAIN @ |->
            IF tile_supports_atmos(iw.ship.tiles[i])
            THEN [@[i] EXCEPT !.o2_kg = o2_kg] ELSE @[i]]]

\* every cell a vacuum (the first loop of atmos_diffusion_conserves_mass)
Vented(iw, cfg) ==
    [iw EXCEPT !.ship.tile_atmos = [i \in DOMAIN @ |-> vacuum(cfg.baseline_temp_c)]]

\* a pawn hurt before: head 0.3 hp, left arm 0.05 hp, left leg 0 hp
Wounded(iw) ==
    [iw EXCEPT !.pawn.health[1].hp = 300000, !.pawn.health[3].hp = 50000,
               !.pawn.health[5].hp = 0]

\* the ships a run of SpecPawn starts with
PawnShips ==
    LET fresh == new_test_ship(DefaultConfig)
    IN { fresh,
         \* asleep on the bed, half rested (tests::rest_recovers_while_sleeping)
         PawnPlaced(fresh, 2, 2, "Sleeping",
                    [hunger |-> 0, thirst |-> 0, rest |-> NeedOne \div 2]),
         \* asleep on the other bed tile, almost rested, a little hungry, parched
         PawnPlaced(fresh, 3, 2, "Sleeping",
                    [hunger |-> NeedOne \div 10, thirst |-> NeedOne, rest |-> 1000]),
         \* awake beside the bed, starving and parched to within a tick, exhausted
         PawnPlaced(fresh, 2, 3, "Awake",
                    [hunger |-> NeedOne - 1000, thirst |-> NeedOne - 1000,
                     rest |-> NeedOne]),
         \* air with 0.00007 kg of O2 per tile: less than one breath of 0.25 s
         \* (0.000075 kg), more than 90% of it
         WithO2(fresh, 700),
         \* a vented ship and a wounded pawn
         Wounded(Vented(fresh, DefaultConfig)),
         \* a wounded pawn on the wall tile (0, 3), which has no cell
         Wounded(PawnPlaced(fresh, 0, 3, "Awake",
                            [hunger |-> 0, thirst |-> 0, rest |-> 0])) }

\* the commands of a run of SpecPawn: steps onto and along the bed (or off the
\* wall), a sleep toggle, and interactions with the bed and the food generator
PawnCommands ==
    { [type |-> "MovePawn", dx |-> 0, dy |-> -1],
      [type |-> "MovePawn", dx |-> 1, dy |-> 0],
      [type |-> "ToggleSleep"],
      [type |-> "InteractAt", x |-> 2, y |-> 2],
      [type |-> "InteractAt", x |-> 4, y |-> 2] }

InitPawn ==
    /\ config = DefaultConfig
    /\ interior \in PawnShips
    /\ mu = 0
    /\ sim_time = 0
    /\ bodies = <<>>
    /\ next_id = 1
    /\ events = <<>>
    /\ last_op = [op |-> "new"]
    /\ prev = Snapshot
    /\ tick_log = <<>>
    /\ origin = interior
    /\ elapsed = 0
    /\ count = NoneYet
    /\ server = NoServer

NextPawn ==
    \/ \E command \in PawnCommands : QueueCommand(command)
    \/ \E dt \in Dts : Step(dt)

SpecPawn == InitPawn /\ [][NextPawn]_vars

\* the interior before the call logged at position i of tick_log
WorldBefore(i) == IF i = 1 THEN prev.interior ELSE tick_log[i - 1].w

\* C12: in every reachable state the pawn's hunger, thirst and rest lie in [0, 1]
C12_NeedsWithinUnit ==
    /\ interior.pawn.needs.hunger >= 0 /\ interior.pawn.needs.hunger <= NeedOne
    /\ interior.pawn.needs.thirst >= 0 /\ interior.pawn.needs.thirst <= NeedOne
    /\ interior.pawn.needs.rest >= 0 /\ interior.pawn.needs.rest <= NeedOne

\* a tick with dt > 0 stopped a need at 1 that was below 1, or at 0 that was
\* above 0
C12_Witness ==
    /\ last_op.op = "step" /\ last_op.dt > 0
    /\ \/ /\ prev.interior.pawn.needs.hunger < NeedOne
          /\ prev.interior.pawn.needs.hunger + HUNGER_RATE * last_op.dt > NeedOne
          /\ interior.pawn.needs.hunger = NeedOne
       \/ /\ prev.interior.pawn.needs.rest > 0
          /\ prev.interior.pawn.needs.rest - REST_RECOVER_RATE * last_op.dt < 0
          /\ interior.pawn.needs.rest = 0

Unqueued(iw) == [iw EXCEPT !.command_queue = <<>>]

\* the other pawn status
OtherStatus(status) == IF status = "Awake" THEN "Sleeping" ELSE "Awake"

\* C14: a ToggleSleep command applied while the pawn stands on a Bed tile turns
\* Awake into Sleeping and Sleeping into Awake and changes nothing else; applied
\* while the pawn stands on another tile it changes nothing at all
C14_ToggleSleepOnlyOnBed ==
    \A i \in 1..Len(tick_log) :
        (tick_log[i].ev = "command" /\ tick_log[i].command.type = "ToggleSleep") =>
            LET before == WorldBefore(i)
                after == tick_log[i].w
            IN IF tile_type(before.ship, before.pawn.x, before.pawn.y) = "Bed"
               THEN /\ after.pawn.status = OtherStatus(before.pawn.status)
                    /\ Unqueued([after EXCEPT !.pawn.status = before.pawn.status])
                          = Unqueued(before)
               ELSE Unqueued(after) = Unqueued(before)

\* one tick moved the pawn from the floor onto a Bed tile and then applied a
\* ToggleSleep, which put it to sleep
C14_Witness ==
    /\ Len(tick_log) >= 2
    /\ tick_log[1].command.type = "MovePawn"
    /\ tile_type(prev.interior.ship, prev.interior.pawn.x, prev.interior.pawn.y) = "Floor"
    /\ tile_type(tick_log[1].w.ship, tick_log[1].w.pawn.x, tick_log[1].w.pawn.y) = "Bed"
    /\ tick_log[1].w.pawn.status = "Awake"
    /\ tick_log[2].command.type = "ToggleSleep"
    /\ tick_log[2].w.pawn.status = "Sleeping"

\* the tile (x, y) of the ship lies in the footprint of a bed device
CoveredByBed(ship, x, y) ==
    \E d \in DevicesOfKind(ship, "BedDevice") : device_contains(ship.devices[d], x, y)

\* C15: an InteractAt{x, y} command on a tile covered by a bed device, applied
\* by the tick that follows it, turns Awake into Sleeping and Sleeping into
\* Awake when the pawn stands on that tile (x, y) and the tile is a Bed, and
\* leaves the status as it was when the pawn stands anywhere else
C15_BedInteractionToggles ==
    \A i \in 1..Len(tick_log) :
        LET command == tick_log[i].command
            before == WorldBefore(i)
            after == tick_log[i].w
        IN (/\ tick_log[i].ev = "command" /\ command.type = "InteractAt"
            /\ CoveredByBed(before.ship, command.x, command.y)) =>
               IF /\ before.pawn.x = command.x /\ before.pawn.y = command.y
                  /\ tile_type(before.ship, command.x, command.y) = "Bed"
               THEN after.pawn.status = OtherStatus(before.pawn.status)
               ELSE after.pawn.status = before.pawn.status

\* a tick applied an InteractAt on the Bed tile the pawn was sleeping on and woke
\* it
C15_Witness ==
    /\ last_op.op = "step"
    /\ \E i \in 1..Len(tick_log) :
          /\ tick_log[i].ev = "command" /\ tick_log[i].command.type = "InteractAt"
          /\ CoveredByBed(WorldBefore(i).ship, tick_log[i].command.x, tick_log[i].command.y)
          /\ WorldBefore(i).pawn.x = tick_log[i].command.x
          /\ WorldBefore(i).pawn.y = tick_log[i].command.y
          /\ WorldBefore(i).pawn.status = "Sleeping"
          /\ tick_log[i].w.pawn.status = "Awake"
    /\ interior.pawn.status = "Awake"

\* C16: an atmosphere sub-step with the pawn on a breathable tile takes
\* min(available O2, required O2) out of the tile's O2 and adds the full CO2
\* production times consumed / required to its CO2, and touches nothing else of
\* the air; in any sub-step the pawn is suffocating exactly when it has no cell
\* or consumed less than 90% of the required O2
C16_BreathingExchange ==
    \A i \in 1..Len(tick_log) :
        tick_log[i].ev = "apply_pawn_atmos_effects" =>
            LET before == WorldBefore(i)
                after == tick_log[i].w
                dt == config.tick_interval_s
                required == O2_CONSUMPTION_KG_PER_SEC * dt
                production == CO2_PRODUCTION_KG_PER_SEC * dt
                x == before.pawn.x
                y == before.pawn.y
                k == idx(x, y, before.ship.width)
            IN IF in_bounds(before.ship, x, y)
                    /\ tile_type(before.ship, x, y) \in {"Floor", "Bed", "DoorOpen", "DoorClosed"}
               THEN LET old == before.ship.tile_atmos[k]
                        new == after.ship.tile_atmos[k]
                        consumed == old.o2_kg - new.o2_kg
                    IN /\ consumed = Min(old.o2_kg, required)
                       /\ new.co2_kg - old.co2_kg = (production * consumed) \div required
                       /\ new.n2_kg = old.n2_kg
                       /\ \A j \in DOMAIN after.ship.tile_atmos :
                             j # k => after.ship.tile_atmos[j] = before.ship.tile_atmos[j]
                       /\ tick_log[i].suffocating <=> (10 * consumed < 9 * required)
               ELSE /\ after.ship.tile_atmos = before.ship.tile_atmos
                    /\ tick_log[i].suffocating

\* a sub-step in which the pawn's tile held less O2 than a breath requires but
\* at least 90% of it: the pawn took all of it, released that share of the CO2,
\* and was not suffocating
C16_Witness ==
    \E i \in 1..Len(tick_log) :
        /\ tick_log[i].ev = "apply_pawn_atmos_effects"
        /\ has_atmos_cell(WorldBefore(i).ship, WorldBefore(i).pawn.x, WorldBefore(i).pawn.y)
        /\ LET k == idx(WorldBefore(i).pawn.x, WorldBefore(i).pawn.y,
                        WorldBefore(i).ship.width)
               old == WorldBefore(i).ship.tile_atmos[k]
               new == tick_log[i].w.ship.tile_atmos[k]
           IN /\ old.o2_kg > 0
              /\ old.o2_kg < O2_CONSUMPTION_KG_PER_SEC * config.tick_interval_s
              /\ new.o2_kg = 0
              /\ new.co2_kg > old.co2_kg
              /\ ~tick_log[i].suffocating

\* the pawn lacks air in the sub-step logged at position i: it has no cell, or
\* the O2 its tile lost in the sub-step is below 90% of a breath
LacksAir(i) ==
    LET before == WorldBefore(i)
        k == idx(before.pawn.x, before.pawn.y, before.ship.width)
    IN \/ ~has_atmos_cell(before.ship, before.pawn.x, before.pawn.y)
       \/ 10 * (before.ship.tile_atmos[k].o2_kg - tick_log[i].w.ship.tile_atmos[k].o2_kg)
             < 9 * (O2_CONSUMPTION_KG_PER_SEC * config.tick_interval_s)

\* C17: suffocation_time is larger by the sub-step dt after every atmosphere
\* sub-step in which the pawn is suffocating, and is zero after every sub-step
\* in which it is not; nothing else in a tick changes it
C17_SuffocationClock ==
    \A i \in 1..Len(tick_log) :
        LET was == WorldBefore(i).pawn.suffocation_time
            is == tick_log[i].w.pawn.suffocation_time
        IN IF tick_log[i].ev = "apply_pawn_atmos_effects"
           THEN IF LacksAir(i) THEN is = was + config.tick_interval_s ELSE is = 0
           ELSE is = was

\* a sub-step in which a pawn that had been suffocating found air again and its
\* suffocation_time went back to zero
C17_Witness ==
    \E i \in 1..Len(tick_log) :
        /\ tick_log[i].ev = "apply_pawn_atmos_effects"
        /\ WorldBefore(i).pawn.suffocation_time > 0
        /\ ~LacksAir(i)
        /\ tick_log[i].w.pawn.suffocation_time = 0

\* the hp the body part k lost in the call logged at position i
HpLoss(i, k) == WorldBefore(i).pawn.health[k].hp - tick_log[i].w.pawn.health[k].hp

\* C18: every call of a tick leaves the body parts with what one amount >= 0,
\* the same for all parts, subtracted from each and floored at zero leaves; in
\* every reachable state each part's hp lies in [0, max_hp], and no operation
\* leaves a part with more hp than it had
C18_DamageUniformAndFloored ==
    /\ \A k \in DOMAIN interior.pawn.health :
          /\ interior.pawn.health[k].hp >= 0
          /\ interior.pawn.health[k].hp <= interior.pawn.health[k].max_hp
          /\ interior.pawn.health[k].hp <= prev.interior.pawn.health[k].hp
          /\ interior.pawn.health[k].max_hp = prev.interior.pawn.health[k].max_hp
    /\ \A i \in 1..Len(tick_log) :
          LET was == WorldBefore(i).pawn.health
              is == tick_log[i].w.pawn.health
          IN /\ DOMAIN is = DOMAIN was
             /\ \E p \in DOMAIN was :
                   /\ HpLoss(i, p) >= 0
                   /\ \A q \in DOMAIN was : is[q].hp = Max(was[q].hp - HpLoss(i, p), 0)

\* a sub-step whose damage brought one body part to zero that had less hp than
\* the damage, and took the full damage from another part
C18_Witness ==
    \E i \in 1..Len(tick_log) :
        \E p \in DOMAIN interior.pawn.health : \E q \in DOMAIN interior.pawn.health :
            /\ tick_log[i].w.pawn.health[p].hp > 0
            /\ HpLoss(i, p) > 0
            /\ WorldBefore(i).pawn.health[q].hp > 0
            /\ WorldBefore(i).pawn.health[q].hp < HpLoss(i, p)
            /\ tick_log[i].w.pawn.health[q].hp = 0

(***************************************************************************)
(* SpecFaults: the interior under queued commands and ticks, started from  *)
(* ships with a dispenser that is not linked to a tank, or with the pawn   *)
(* between a hull breach and the door                                      *)
(***************************************************************************)
\* the dispenser (device 3 of the test layout) with another connected_tank_id;
\* 0 stands for None
Relinked(iw, tank_id) == [iw EXCEPT !.ship.devices[3].data.connected_tank_id = tank_id]

\* the connected_tank_id of the ships: None, an id no device has, the
\* dispenser's own id, and the id of the reactor
BadLinks == {0, 99, 3, 1}

\* the pawn at (6, 6), the tile above it an Empty tile and the door below it open
AtDoor(iw, cfg) ==
    [PawnPlaced(iw, 6, 6, "Awake", iw.pawn.needs) EXCEPT
        !.ship = set_tile_type(@, 6, 5, "Empty", cfg)]

\* the door of the test layout (device 9, tile (6, 7)) closed
DoorShut(iw, cfg) ==
    [iw EXCEPT !.ship = set_tile_type([@ EXCEPT !.devices[9].data.open = FALSE],
                                      6, 7, "DoorClosed", cfg)]

\* the ships a run of SpecFaults starts with
FaultShips ==
    LET fresh == new_test_ship(DefaultConfig)
    IN {Relinked(fresh, tank_id) : tank_id \in BadLinks}
         \cup {AtDoor(fresh, DefaultConfig), DoorShut(AtDoor(fresh, DefaultConfig), DefaultConfig)}

\* the commands of a run of SpecFaults: steps toward the door and toward the
\* breach, leaps onto the left wall and past the left edge of the grid, and
\* interactions with the door, with a bare floor tile and with coordinates
\* beyond the right and the lower edge of the grid
FaultCommands ==
    { [type |-> "MovePawn", dx |-> 0, dy |-> 1],
      [type |-> "MovePawn", dx |-> 0, dy |-> -1],
      [type |-> "MovePawn", dx |-> -6, dy |-> 0],
      [type |-> "MovePawn", dx |-> -7, dy |-> 0],
      [type |-> "InteractAt", x |-> 6, y |-> 7],
      [type |-> "InteractAt", x |-> 3, y |-> 3],
      [type |-> "InteractAt", x |-> 12, y |-> 3],
      [type |-> "InteractAt", x |-> 3, y |-> 8] }

InitFaults ==
    /\ config = DefaultConfig
    /\ interior \in FaultShips
    /\ mu = 0
    /\ sim_time = 0
    /\ bodies = <<>>
    /\ next_id = 1
    /\ events = <<>>
    /\ last_op = [op |-> "new"]
    /\ prev = Snapshot
    /\ tick_log = <<>>
    /\ origin = interior
    /\ elapsed = 0
    /\ count = NoneYet
    /\ server = NoServer

NextFaults ==
    \/ \E command \in FaultCommands : QueueCommand(command)
    \/ \E dt \in Dts : Step(dt)

SpecFaults == InitFaults /\ [][NextFaults]_vars

\* the dispenser at index i of the ship is online and active, and its
\* connected_tank_id is absent or names no Tank among the other devices
FeedsFromNothing(ship, i) ==
    /\ ship.devices[i].online /\ ship.devices[i].data.active
    /\ ~\E j \in DevicesOfKind(ship, "Tank") :
          /\ j # i
          /\ ship.devices[i].data.connected_tank_id # 0
          /\ ship.devices[j].id = ship.devices[i].data.connected_tank_id

\* the payloads of the tanks of a ship
TankContents(ship) == [j \in DevicesOfKind(ship, "Tank") |-> ship.devices[j].data]

\* C19: when every dispenser of the ship is online and active with a
\* connected_tank_id that is absent, matches no other device, is the dispenser's
\* own id or names a device that is not a Tank, ShipInterior::step leaves every
\* tank's contents and every tile's atmosphere as they were, and the tick goes
\* on to the needs update and ends with an empty queue
C19_UnlinkedDispenserIsNoOp ==
    last_op.op = "step" =>
        LET k == Len(prev.interior.command_queue) + 1
            before == WorldBefore(k).ship
            after == tick_log[k].w.ship
        IN (/\ DevicesOfKind(before, "Dispenser") # {}
            /\ \A i \in DevicesOfKind(before, "Dispenser") : FeedsFromNothing(before, i)) =>
               /\ tick_log[k].ev = "ship_step"
               /\ TankContents(after) = TankContents(before)
               /\ after.tile_atmos = before.tile_atmos
               /\ Len(tick_log) > k /\ tick_log[k + 1].ev = "update_pawn_needs"
               /\ interior.command_queue = <<>>

\* a tick with dt > 0 ran the device step with the dispenser online, active and
\* linked to the reactor's id
C19_Witness ==
    /\ last_op.op = "step" /\ last_op.dt > 0
    /\ \E i \in DevicesOfKind(interior.ship, "Dispenser") :
          /\ FeedsFromNothing(interior.ship, i)
          /\ interior.ship.devices[i].data.rate_kg_per_s > 0
          /\ \E j \in DevicesOfKind(interior.ship, "Reactor") :
                interior.ship.devices[j].id = interior.ship.devices[i].data.connected_tank_id
    /\ \E j \in DevicesOfKind(interior.ship, "Tank") : interior.ship.devices[j].data.o2_kg > 0

\* no device of the ship has the tile (x, y) in its footprint
CoveredByNothing(ship, x, y) ==
    \A d \in 1..Len(ship.devices) :
        ~(/\ x >= ship.devices[d].x /\ x < ship.devices[d].x + ship.devices[d].w
          /\ y >= ship.devices[d].y /\ y < ship.devices[d].y + ship.devices[d].h)

\* the tile (x, y) is outside the grid or is a Wall, an Empty or a DoorClosed tile
Blocked(ship, x, y) ==
    \/ x < 0 \/ y < 0 \/ x >= ship.width \/ y >= ship.height
    \/ ship.tiles[idx(x, y, ship.width)] \in {"Wall", "Empty", "DoorClosed"}

MaxThrusts == 2

\* the mu the world is built with: mean motion 1 quarter turn per ms at a = 20
\* and 8 at a = 5
ThrustMu == 8000

\* the dt of World::step, in ms
ThrustDts == {0, 2}

\* the times of the burns, in ms: now, earlier or later than sim_time
BurnTimes == {0, 2}

\* apoapsis at 8, periapsis at 2, the periapsis a quarter turn from the x axis
ApsisOrbit ==
    [semi_major_axis |-> 5, eccentricity |-> 600, arg_of_periapsis |-> 1,
     mean_anomaly_at_epoch |-> 2, epoch |-> 0]

\* the registry a caller has built with add_body: a ship, debris at the apoapsis
\* of its orbit, and a third body registered under the id of the first
ThrustBodies ==
    << Body(1, CircularOrbit(20, 0), 1, NoHull),
       Body(2, ApsisOrbit, 0, NoHull),
       Body(1, CircularOrbit(5, 1), 0, NoHull) >>

\* the bodies a caller adds later
ThrustNewBodies == { Body(0, CircularOrbit(20, 1), 0, NoHull) }

\* the ids a caller aims a burn at: two that are registered, one that is not
BurnIds == {1, 2, 7}

\* the burns, as percentages of the body's velocity at the burn: along it and
\* across it (outward on a counterclockwise orbit)
Burns == { <<0, 0>>, <<10, 0>>, <<-10, 0>>, <<-100, 0>>, <<50, 0>>, <<0, 100>> }

\* the delta_v that is the given percentages of the velocity, along and across
DeltaV(vel, burn) ==
    <<MulDiv(vel[1], burn[1], 100) + MulDiv(vel[2], burn[2], 100),
      MulDiv(vel[2], burn[1], 100) - MulDiv(vel[1], burn[2], 100)>>

\* the body at index k can be propagated (index 0: no such body)
Propagable(bodies_, k) == k # 0 /\ OrbitValid(bodies_[k].orbit)

\* a ThrustEvent a caller builds from the state of body k at the burn, as
\* tests::thrust_event_changes_orbit does (lib.rs:496-509)
BurnEventAt(bodies_, mu_, k, id, time, burn) ==
    [body_id |-> id, time |-> time,
     delta_v |-> IF Propagable(bodies_, k)
                 THEN DeltaV(orbit_to_cartesian(bodies_[k].orbit, mu_, time)[2], burn)
                 ELSE <<0, 1>>]

BurnEvent(bodies_, mu_, id, time, burn) ==
    BurnEventAt(bodies_, mu_, get_body_mut(bodies_, id), id, time, burn)

\* the burn is within the scale model: it panics, or it leaves the velocity at a
\* right angle to the position and an orbit below the eccentricity at which
\* the Kepler loop changes its seed
VelocityInScale(position, new_velocity, mu_, t) ==
    \/ cartesian_to_orbit_panic(position, new_velocity, mu_) # NoPanic
    \/ /\ dot(position, new_velocity) = 0
       /\ cartesian_to_orbit(position, new_velocity, mu_, t).eccentricity < 800

BurnInScale(at_burn, event, mu_) ==
    VelocityInScale(at_burn[1], vec_add(at_burn[2], event.delta_v), mu_, event.time)

\* the event is within the scale model: it finds no body or one that cannot be
\* propagated, or its burn is within the scale model
InScaleAt(bodies_, k, event, mu_) ==
    \/ ~Propagable(bodies_, k)
    \/ BurnInScale(orbit_to_cartesian(bodies_[k].orbit, mu_, event.time), event, mu_)

InScale(bodies_, mu_, event) ==
    InScaleAt(bodies_, get_body_mut(bodies_, event.body_id), event, mu_)

\* the events a caller can send in the present state
ThrustEvents ==
    {event \in {BurnEvent(bodies, mu, id, time, burn) :
                   id \in BurnIds, time \in BurnTimes, burn \in Burns} :
        InScale(bodies, mu, event)}

InitThrust ==
    /\ config = DefaultConfig
    /\ interior = new_test_ship(DefaultConfig)
    /\ mu = ThrustMu
    /\ sim_time = 0
    /\ bodies = AddAll(<<>>, ThrustBodies, 1, ThrustMu, 0)
    /\ next_id = 1
    /\ events = <<>>
    /\ last_op = [op |-> "new"]
    /\ prev = Snapshot
    /\ tick_log = <<>>
    /\ origin = interior
    /\ elapsed = 0
    /\ count = NoneYet
    /\ server = NoServer

\* World::apply_thrust_event
ApplyThrustEvent(event) ==
    /\ ~Panicked
    /\ count.thrusts < MaxThrusts
    /\ Ops < MaxWorldOps
    /\ bodies' = apply_thrust_event(bodies, event, mu, sim_time).bodies
    /\ last_op' = [op |-> "apply_thrust_event", event |-> event,
                   panic |-> apply_thrust_event(bodies, event, mu, sim_time).panic]
    /\ prev' = Snapshot
    /\ count' = [count EXCEPT !.thrusts = @ + 1]
    /\ UNCHANGED <<config, interior, mu, sim_time, next_id, events, tick_log,
                   origin, elapsed, server>>

NextThrust ==
    \/ \E body \in ThrustNewBodies : AddBody(body)
    \/ \E dt \in ThrustDts : WorldStep(dt)
    \/ \E event \in ThrustEvents : ApplyThrustEvent(event)

SpecThrust == InitThrust /\ [][NextThrust]_vars

(***************************************************************************)
(* Properties of thrust events (SpecThrust)                                *)
(***************************************************************************)
\* the last operation was an apply_thrust_event that returned
ThrustReturned == last_op.op = "apply_thrust_event" /\ last_op.panic = NoPanic

\* the index of the first body with the id, stated on the registry itself
IsFirstWithId(bodies_, k, id) ==
    /\ k \in DOMAIN bodies_
    /\ bodies_[k].id = id
    /\ \A j \in 1 .. k - 1 : bodies_[j].id # id

\* C22: apply_thrust_event changes only the orbit, position and velocity of the
\* body whose id is event.body_id (the first one, where ids repeat) and gives it
\* an orbit whose epoch is event.time; sim_time, next_id, the interior, the
\* events, the length and order of the registry and every other body are as
\* before, and if no body has the id the whole world is as before
C22_ThrustFrame ==
    ThrustReturned =>
        /\ sim_time = prev.sim_time
        /\ interior = prev.interior
        /\ next_id = prev.next_id
        /\ Len(bodies) = Len(prev.bodies)
        /\ \A k \in DOMAIN bodies :
               IF IsFirstWithId(prev.bodies, k, last_op.event.body_id)
               THEN /\ bodies[k].id = prev.bodies[k].id
                    /\ bodies[k].radius = prev.bodies[k].radius
                    /\ bodies[k].hull_shape = prev.bodies[k].hull_shape
                    /\ bodies[k].orbit.epoch = last_op.event.time
               ELSE bodies[k] = prev.bodies[k]

\* a burn on the first of two bodies with id 1 changed its semi-major axis
C22_Witness ==
    /\ ThrustReturned
    /\ last_op.event.body_id = 1
    /\ Len(bodies) >= 3
    /\ bodies[3].id = 1
    /\ bodies[1].orbit.semi_major_axis # prev.bodies[1].orbit.semi_major_axis

\* the last operation was one of the three that prime the cache, and returned
CachePrimed ==
    /\ last_op.op \in {"add_body", "world_step", "apply_thrust_event"}
    /\ last_op.panic = NoPanic

\* C23: after add_body, World::step and apply_thrust_event the cached position
\* and velocity of every body are orbit_to_cartesian(body.orbit, mu, sim_time),
\* and World::step has advanced sim_time by exactly dt
C23_CacheCurrent ==
    CachePrimed =>
        /\ \A k \in DOMAIN bodies :
               <<bodies[k].position, bodies[k].velocity>>
                   = orbit_to_cartesian(bodies[k].orbit, mu, sim_time)
        /\ last_op.op = "world_step" => sim_time = prev.sim_time + last_op.dt

\* a burn in the past of a body that has moved since: its cached position is
\* not the one at the burn
C23_Witness ==
    /\ ThrustReturned
    /\ last_op.event.time # sim_time
    /\ \E k \in DOMAIN bodies :
           /\ bodies[k].orbit # prev.bodies[k].orbit
           /\ bodies[k].position
                  # orbit_to_cartesian(bodies[k].orbit, mu, last_op.event.time)[1]

(***************************************************************************)
(* SpecAbort: the world with orbits orbit_to_cartesian asserts against     *)
(***************************************************************************)
\* an orbit with one element replaced
WithAxis(orbit, a) == [orbit EXCEPT !.semi_major_axis = a]

WithEccentricity(orbit, e) == [orbit EXCEPT !.eccentricity = e]

\* registries a caller can leave (World.bodies and BodyState.orbit are pub): the
\* one add_body built, and that one with the second body on a parabola (e = 1),
\* with the first body at a = 0, and with the third body at a negative a
AbortRegistries ==
    LET built == AddAll(<<>>, ThrustBodies, 1, ThrustMu, 0)
    IN { built,
         [built EXCEPT ![2].orbit = WithEccentricity(@, 1000)],
         [built EXCEPT ![1].orbit = WithAxis(@, 0)],
         [built EXCEPT ![3].orbit = WithAxis(@, -5)] }

\* the bodies a caller adds: one on a valid orbit, and one each with a = 0,
\* a < 0, e = 1, e > 1 and e < 0
AbortNewBodies ==
    { Body(0, CircularOrbit(20, 1), 0, NoHull),
      Body(0, WithAxis(CircularOrbit(20, 1), 0), 0, NoHull),
      Body(0, WithAxis(CircularOrbit(20, 1), -5), 0, NoHull),
      Body(0, WithEccentricity(ApsisOrbit, 1000), 0, NoHull),
      Body(0, WithEccentricity(ApsisOrbit, 1500), 0, NoHull),
      Body(0, WithEccentricity(ApsisOrbit, -100), 0, NoHull) }

InitAbort ==
    /\ config = DefaultConfig
    /\ interior = new_test_ship(DefaultConfig)
    /\ mu = ThrustMu
    /\ sim_time = 0
    /\ bodies \in AbortRegistries
    /\ next_id = 1
    /\ events = <<>>
    /\ last_op = [op |-> "new"]
    /\ prev = Snapshot
    /\ tick_log = <<>>
    /\ origin = interior
    /\ elapsed = 0
    /\ count = NoneYet
    /\ server = NoServer

\* the burns of a caller: prograde by 10% and by 50%, and one that cancels the
\* velocity
AbortBurns == { <<10, 0>>, <<50, 0>>, <<-100, 0>> }

\* the events a caller can send in the present state, for burns at time 0
AbortEvents ==
    {event \in {BurnEvent(bodies, mu, id, 0, burn) :
                   id \in {1, 2}, burn \in AbortBurns} :
        InScale(bodies, mu, event)}

NextAbort ==
    \/ \E body \in AbortNewBodies : AddBody(body)
    \/ \E dt \in ThrustDts : WorldStep(dt)
    \/ \E dt \in ThrustDts : DetectCollisions(dt)
    \/ \E event \in AbortEvents : ApplyThrustEvent(event)

SpecAbort == InitAbort /\ [][NextAbort]_vars

\* the orbit is one the claim names: a semi-major axis that is not positive or
\* an eccentricity outside [0, 1)
Malformed(orbit) ==
    \/ orbit.semi_major_axis <= 0
    \/ orbit.eccentricity < 0
    \/ orbit.eccentricity >= 1000

\* the state at the burn has zero angular momentum, or an energy that is not
\* negative (a = -mu / (2 energy) is then negative or not finite)
DegenerateBurn(position, velocity, mu_) ==
    \/ position[1] * velocity[2] - position[2] * velocity[1] = 0
    \/ length(position) * length_squared(velocity) >= 2 * mu_

\* the thrust event meets a body with a malformed orbit, or yields a degenerate
\* state at the burn
ThrustMustAbort(bodies_, event, mu_) ==
    \E k \in DOMAIN bodies_ :
        /\ IsFirstWithId(bodies_, k, event.body_id)
        /\ \/ Malformed(bodies_[k].orbit)
           \/ DegenerateBurn(orbit_to_cartesian(bodies_[k].orbit, mu_, event.time)[1],
                             vec_add(orbit_to_cartesian(bodies_[k].orbit, mu_,
                                                        event.time)[2],
                                     event.delta_v), mu_)

\* C21: add_body of a malformed orbit, World::step and detect_collisions on a
\* registry that holds one, and apply_thrust_event on a body that has one or
\* with a burn that yields zero angular momentum or a semi-major axis that is
\* not positive and finite, abort with an assertion: the call returns nothing
\* (no body is pushed, the tick does not reach the interior)
C21_MalformedAborts ==
    /\ (last_op.op = "add_body" /\ Malformed(last_op.body.orbit))
           => (last_op.panic # NoPanic /\ bodies = prev.bodies)
    /\ (/\ last_op.op \in {"world_step", "detect_collisions"}
        /\ \E k \in DOMAIN prev.bodies : Malformed(prev.bodies[k].orbit))
           => (last_op.panic # NoPanic /\ interior = prev.interior)
    /\ (/\ last_op.op = "apply_thrust_event"
        /\ ThrustMustAbort(prev.bodies, last_op.event, mu))
           => last_op.panic # NoPanic

\* the four operations have each aborted: a thrust event on a zero angular
\* momentum, one on an unbound state, a step and a collision query over a
\* malformed orbit, and an add_body of one
C21_Witness ==
    /\ last_op.op = "apply_thrust_event"
    /\ last_op.panic = "degenerate orbit (zero angular momentum)"
    /\ ~Malformed(prev.bodies[1].orbit)

C21_WitnessUnbound ==
    /\ last_op.op = "apply_thrust_event"
    /\ last_op.panic = "invalid semi-major axis"

C21_WitnessStep ==
    /\ last_op.op = "world_step"
    /\ last_op.panic = "eccentricity out of range"
    /\ sim_time # prev.sim_time

C21_WitnessDetect ==
    /\ last_op.op = "detect_collisions"
    /\ last_op.panic = "semi-major axis must be positive"

C21_WitnessAdd ==
    /\ last_op.op = "add_body"
    /\ last_op.panic = "semi-major axis must be positive"
    /\ last_op.body.orbit.semi_major_axis < 0

(***************************************************************************)
(* SpecRound: orbit_to_cartesian followed by cartesian_to_orbit, as a pure *)
(* function of the orbit and the time                                      *)
(***************************************************************************)
\* semi-major axes with a whole mean motion under ThrustMu: 8 and 1 quarter
\* turns per ms
RoundAxes == {5, 20}

\* arguments of periapsis, in quarter turns; 3 is an angle beyond PI
RoundArgs == {-1, 0, 1, 2, 3}

\* the valid orbits converted: circular ones at any quarter, and ones of
\* eccentricity 0.6 that are at an apsis at every even time
RoundOrbits ==
    {[semi_major_axis |-> a, eccentricity |-> 0, arg_of_periapsis |-> w,
      mean_anomaly_at_epoch |-> m0, epoch |-> 0] :
         a \in RoundAxes, w \in RoundArgs, m0 \in 0 .. 3}
    \cup
    {[semi_major_axis |-> a, eccentricity |-> 600, arg_of_periapsis |-> w,
      mean_anomaly_at_epoch |-> m0, epoch |-> 0] :
         a \in RoundAxes, w \in RoundArgs, m0 \in {0, 2}}

\* the times of the conversion
RoundTimes == 0 .. 3

\* the time is within the scale model for the orbit
RoundInScale(orbit, t) == orbit.eccentricity = 0 \/ t % 2 = 0

\* cartesian_to_orbit(pos, vel, mu, t) of a state <<pos, vel>>
Recovered(state, mu_, t) == cartesian_to_orbit(state[1], state[2], mu_, t)

\* the round trip of tests::round_trip_orbit_conversion (lib.rs:467-468)
round_trip(orbit, mu_, t) == Recovered(orbit_to_cartesian(orbit, mu_, t), mu_, t)

InitRound ==
    /\ config = DefaultConfig
    /\ interior = new_test_ship(DefaultConfig)
    /\ mu = ThrustMu
    /\ sim_time = 0
    /\ bodies = <<>>
    /\ next_id = 1
    /\ events = <<>>
    /\ last_op = [op |-> "new"]
    /\ prev = Snapshot
    /\ tick_log = <<>>
    /\ origin = interior
    /\ elapsed = 0
    /\ count = NoneYet
    /\ server = NoServer

\* one conversion there and back
RoundTrip(orbit, t) ==
    /\ last_op.op = "new"
    /\ RoundInScale(orbit, t)
    /\ last_op' = [op |-> "round_trip", orbit |-> orbit, t |-> t,
                   recovered |-> round_trip(orbit, mu, t)]
    /\ UNCHANGED <<config, interior, mu, sim_time, bodies, next_id, events, prev,
                   tick_log, origin, elapsed, count, server>>

NextRound == \E orbit \in RoundOrbits : \E t \in RoundTimes : RoundTrip(orbit, t)

SpecRound == InitRound /\ [][NextRound]_vars

\* C25: the round trip of a valid orbit at any time recovers its semi-major
\* axis, eccentricity and argument of periapsis (the tolerances of the test,
\* 1e-3 m, 1e-9 and 1e-9 rad, are below one unit of the model)
C25_RoundTripRecovers ==
    last_op.op = "round_trip" =>
        /\ last_op.recovered.semi_major_axis = last_op.orbit.semi_major_axis
        /\ last_op.recovered.eccentricity = last_op.orbit.eccentricity
        /\ last_op.recovered.arg_of_periapsis = last_op.orbit.arg_of_periapsis

\* what the code keeps: the semi-major axis and the eccentricity are recovered,
\* and so is the argument of periapsis of an eccentric orbit when it is given
\* within (-PI, PI]; that of a circular orbit comes back as 0
RoundTripElements ==
    last_op.op = "round_trip" =>
        /\ last_op.recovered.semi_major_axis = last_op.orbit.semi_major_axis
        /\ last_op.recovered.eccentricity = last_op.orbit.eccentricity
        /\ last_op.recovered.epoch = last_op.t
        /\ last_op.recovered.arg_of_periapsis =
               IF last_op.orbit.eccentricity = 0 THEN 0
               ELSE normalize_angle(last_op.orbit.arg_of_periapsis)

(***************************************************************************)
(* The sweep of step_atmosphere as the sequence of pairs it visits         *)
(* (interior.rs:1041-1078), and its properties under SpecAtmos             *)
(***************************************************************************)
\* the n-th iteration of the three nested loops (y, then x, then the
\* direction): cell_a, cell_b and whether the iteration reaches line 1059
SweepVisit(ship, n) ==
    LET k == (n % Len(NEIGHBORS)) + 1
        x == (n \div Len(NEIGHBORS)) % ship.width
        y == n \div (Len(NEIGHBORS) * ship.width)
    IN [a |-> idx(x, y, ship.width),
        b |-> idx(x + NEIGHBORS[k][1], y + NEIGHBORS[k][2], ship.width),
        visited |-> PairVisited(ship, x, y, k)]

\* the pairs (idx_a, idx_b) that exchange gas, in the order of the loops
SweepPairs(ship) ==
    SelectSeq([n \in 1 .. (Len(NEIGHBORS) * ship.width * ship.height) |->
                  SweepVisit(ship, n - 1)],
              LAMBDA v : v.visited)

\* vec![GasDelta::default(); self.tile_atmos.len()] (interior.rs:1041)
NoDeltas(ship) ==
    [i \in DOMAIN ship.tile_atmos |-> [o2_kg |-> 0, n2_kg |-> 0, co2_kg |-> 0]]

\* one GasDelta plus sign times another
DeltaPlus(delta, sign, d) ==
    [o2_kg |-> delta.o2_kg + sign * d.o2_kg,
     n2_kg |-> delta.n2_kg + sign * d.n2_kg,
     co2_kg |-> delta.co2_kg + sign * d.co2_kg]

\* the two entries of the buffer one pair changes (interior.rs:1064-1069)
Exchanged(deltas, pair, d) ==
    [deltas EXCEPT ![pair.a] = DeltaPlus(@, 1, d), ![pair.b] = DeltaPlus(@, -1, d)]

\* a cell plus sign times a GasDelta
CellPlus(cell, sign, d) ==
    [cell EXCEPT !.o2_kg = @ + sign * d.o2_kg, !.n2_kg = @ + sign * d.n2_kg,
                 !.co2_kg = @ + sign * d.co2_kg]

\* the exchange of a pair written to the two cells
ExchangedCells(cells, pair, d) ==
    [cells EXCEPT ![pair.a] = CellPlus(@, 1, d), ![pair.b] = CellPlus(@, -1, d)]

\* a sweep that writes each exchange to the cells at once, not to a buffer,
\* so that the next pair reads masses already changed
VisitPairInPlace(st, pair, factor) ==
    [cells |-> ExchangedCells(st.cells, pair,
                              PairDelta(st.cells[pair.a], st.cells[pair.b], factor)),
     deltas |-> st.deltas]

\* the body of the innermost loop for a visited pair (interior.rs:1059-1069):
\* it reads self.tile_atmos and writes the buffer
VisitPair(st, pair, factor) ==
    [cells |-> st.cells,
     deltas |-> Exchanged(st.deltas, pair,
                          PairDelta(st.cells[pair.a], st.cells[pair.b], factor))]

\* the sweep over the pairs in the given order
RECURSIVE VisitAll(_, _, _)
VisitAll(st, pairs, factor) ==
    IF pairs = <<>> THEN st
    ELSE VisitAll(VisitPair(st, Head(pairs), factor), Tail(pairs), factor)

\* the loop that applies the buffer and clamps (interior.rs:1073-1078)
ApplyDeltas(st) ==
    [i \in DOMAIN st.cells |-> clamp_non_negative(CellPlus(st.cells[i], 1, st.deltas[i]))]

\* step_atmosphere with its pairs visited in the given order
SweepInOrder(ship, dt, pairs) ==
    IF dt <= 0 \/ diffusion_factor(dt) <= 0 THEN ship
    ELSE [ship EXCEPT !.tile_atmos =
            ApplyDeltas(VisitAll([cells |-> ship.tile_atmos, deltas |-> NoDeltas(ship)],
                                 pairs, diffusion_factor(dt)))]

\* the tiles at indices i and j are 8-adjacent: a king's move apart
Adjacent8(ship, i, j) ==
    /\ i # j
    /\ Abs((i % ship.width) - (j % ship.width)) <= 1
    /\ Abs((i \div ship.width) - (j \div ship.width)) <= 1

\* how often the sweep exchanges gas between the tiles at indices i and j
Exchanges(pairs, i, j) ==
    Cardinality({n \in DOMAIN pairs : {pairs[n].a, pairs[n].b} = {i, j}})

\* the last operation was a step_atmosphere with dt > 0
Diffused == last_op.op = "step_atmosphere" /\ last_op.dt > 0

\* C27: in one call of step_atmosphere the sweep exchanges gas exactly once
\* between every two 8-adjacent breathable tiles of the grid, never between two
\* tiles that are not adjacent or of which one is not breathable, and the grid
\* the call leaves is the one these exchanges give
C27_EachPairOnce ==
    Diffused =>
        LET ship == prev.interior.ship
            pairs == SweepPairs(ship)
        IN /\ \A i \in DOMAIN ship.tiles : \A j \in DOMAIN ship.tiles :
                 Exchanges(pairs, i, j) =
                     IF /\ Adjacent8(ship, i, j)
                        /\ tile_supports_atmos(ship.tiles[i])
                        /\ tile_supports_atmos(ship.tiles[j])
                     THEN 1 ELSE 0
           /\ interior.ship = SweepInOrder(ship, last_op.dt, pairs)

\* a 2x2 grid with a wall at (0,0): its three floor tiles exchanged gas, the
\* pair (1,0)-(0,1) along the down-left diagonal
C27_Witness ==
    /\ Diffused
    /\ prev.interior.ship.width = 2 /\ prev.interior.ship.height = 2
    /\ ~tile_supports_atmos(prev.interior.ship.tiles[0])
    /\ Len(SweepPairs(prev.interior.ship)) = 3
    /\ interior.ship.tile_atmos[2] # prev.interior.ship.tile_atmos[2]
    /\ interior.ship.tile_atmos[1] # prev.interior.ship.tile_atmos[1]

\* a sequence back to front
Reversed(s) == [n \in DOMAIN s |-> s[Len(s) + 1 - n]]

\* a sequence started r places later
Rotated(s, r) == [n \in DOMAIN s |-> s[((n - 1 + r) % Len(s)) + 1]]

\* other orders to visit the pairs in: every rotation, forward and backward
SweepOrders(pairs) ==
    {Rotated(pairs, r) : r \in 0 .. Len(pairs) - 1}
        \cup {Reversed(Rotated(pairs, r)) : r \in 0 .. Len(pairs) - 1}

\* C28: every delta of step_atmosphere is computed from the masses held before
\* the call, so the grid it leaves is the one the exchanges give in any order
\* of the pairs
C28_OrderIndependent ==
    Diffused =>
        \A order \in SweepOrders(SweepPairs(prev.interior.ship)) :
            interior.ship = SweepInOrder(prev.interior.ship, last_op.dt, order)

\* a grid of four floor tiles (six pairs, each tile in three of them) with
\* unequal masses has exchanged gas
C28_Witness ==
    /\ Diffused
    /\ Len(SweepPairs(prev.interior.ship)) = 6
    /\ \A i \in DOMAIN interior.ship.tile_atmos :
           interior.ship.tile_atmos[i] # prev.interior.ship.tile_atmos[i]

\* the buffer of deltas at the end of the sweep of the ship, for dt > 0
SweptDeltas(ship, dt) ==
    VisitAll([cells |-> ship.tile_atmos, deltas |-> NoDeltas(ship)],
             SweepPairs(ship), diffusion_factor(dt)).deltas

\* C29: in one call of step_atmosphere with dt > 0 no tile loses more of a gas
\* than it held before the call (mass plus summed deltas is never below zero),
\* and the clamp after the step changes no value
C29_NoOvershoot ==
    Diffused =>
        \A i \in DOMAIN interior.ship.tile_atmos :
            LET sum == CellPlus(prev.interior.ship.tile_atmos[i], 1,
                                SweptDeltas(prev.interior.ship, last_op.dt)[i])
            IN /\ sum.o2_kg >= 0 /\ sum.n2_kg >= 0 /\ sum.co2_kg >= 0
               /\ interior.ship.tile_atmos[i] = sum

\* the part of C29 that the code keeps when no tile has more than two
\* breathable neighbours (3x1 grids): no sum is below zero there
NoOvershootInRow ==
    (Diffused /\ prev.interior.ship.height = 1) =>
        \A i \in DOMAIN interior.ship.tile_atmos :
            LET sum == CellPlus(prev.interior.ship.tile_atmos[i], 1,
                                SweptDeltas(prev.interior.ship, last_op.dt)[i])
            IN sum.o2_kg >= 0 /\ sum.n2_kg >= 0 /\ sum.co2_kg >= 0

(***************************************************************************)
(* SpecGas: ticks and commands on a ship of two tiles without devices, its *)
(* cells assigned as in SpecAtmos                                          *)
(***************************************************************************)
\* the commands of a run of SpecGas: a step to the other tile and back, and a
\* sleep toggle
GasCommands ==
    { [type |-> "MovePawn", dx |-> 1, dy |-> 0],
      [type |-> "MovePawn", dx |-> -1, dy |-> 0],
      [type |-> "ToggleSleep"] }

InitGas ==
    /\ config = DefaultConfig
    /\ \E fill \in [0 .. 1 -> AtmosFills] :
          interior = [new_test_ship(DefaultConfig) EXCEPT
                        !.ship = GridShip(2, 1, fill), !.pawn.x = 0, !.pawn.y = 0]
    /\ mu = 0
    /\ sim_time = 0
    /\ bodies = <<>>
    /\ next_id = 1
    /\ events = <<>>
    /\ last_op = [op |-> "new"]
    /\ prev = Snapshot
    /\ tick_log = <<>>
    /\ origin = interior
    /\ elapsed = 0
    /\ count = NoneYet
    /\ server = NoServer

NextGas ==
    \/ \E command \in GasCommands : QueueCommand(command)
    \/ \E dt \in Dts : Step(dt)

SpecGas == InitGas /\ [][NextGas]_vars

(***************************************************************************)
(* Properties of the gas masses under ticks and commands                   *)
(***************************************************************************)
\* no gas mass of the cell is negative
NonNegative(cell) == cell.o2_kg >= 0 /\ cell.n2_kg >= 0 /\ cell.co2_kg >= 0

\* the cell holds at least the epsilon of clamp_non_negative, or nothing
SettledCell(cell) ==
    \/ total_mass(cell) >= MassEpsilon
    \/ cell.o2_kg = 0 /\ cell.n2_kg = 0 /\ cell.co2_kg = 0

\* C30: in every state reached by ticks and commands, and after every call a
\* tick makes, the O2, N2 and CO2 masses of every tile are non-negative, and
\* after every step_atmosphere call each tile holds a total of at least the
\* epsilon (1e-6 kg) or exactly zero of all three gases
C30_MassesNonNegative ==
    /\ \A t \in DOMAIN interior.ship.tile_atmos :
           NonNegative(interior.ship.tile_atmos[t])
    /\ \A i \in DOMAIN tick_log :
           \A t \in DOMAIN tick_log[i].w.ship.tile_atmos :
               /\ NonNegative(tick_log[i].w.ship.tile_atmos[t])
               /\ tick_log[i].ev = "step_atmosphere"
                      => SettledCell(tick_log[i].w.ship.tile_atmos[t])

\* a tick whose step_atmosphere emptied a tile that held a trace of gas
C30_Witness ==
    \E i \in DOMAIN tick_log :
        /\ tick_log[i].ev = "step_atmosphere"
        /\ \E t \in DOMAIN interior.ship.tile_atmos :
               /\ total_mass(WorldBefore(i).ship.tile_atmos[t]) > 0
               /\ total_mass(tick_log[i].w.ship.tile_atmos[t]) = 0

(***************************************************************************)
(* SpecLoop: InteriorWorld::step one iteration of its sub-step loop at a   *)
(* time (interior.rs:1115-1130), with atmos_accumulator as the f64 it is.  *)
(* Time is counted in quanta of 2^-51 s, the smallest power of two above   *)
(* f64::EPSILON = 2^-52: tick_interval_s is 1 quantum, 0 or -1 quantum,    *)
(* and dt a whole number of quanta.  An f64 holds 53 significant bits, so  *)
(* the whole numbers of quanta it holds are written in three forms:        *)
(*   small: the integer n;   near: 2^53 - n;   big: (2^52 + n) * 2^e with  *)
(* e >= 1, which are 2^e apart.  In the units of the rest of the model one *)
(* quantum is 0 ms and 0 kg of gas moved; 2^53 quanta are 4 s.             *)
(***************************************************************************)
\* sub-steps of the loop in one run
MaxSubSteps == 4

\* InteriorWorld::step calls in one run
MaxLoopSteps == 2

F64Small(n) == [form |-> "small", e |-> 0, n |-> n]

F64Near(n) == [form |-> "near", e |-> 0, n |-> n]

F64Big(e, n) == [form |-> "big", e |-> e, n |-> n]

\* x - 1 in f64 (round to nearest, ties to even) for x >= 1: exact below 2^53;
\* in [2^53, 2^54) the result lies halfway between two neighbours and goes to
\* the one with the even mantissa; from 2^54 on it is x again
f64_sub_one(x) ==
    CASE x.form = "small" -> F64Small(x.n - 1)
      [] x.form = "near" -> F64Near(x.n + 1)
      [] x.form = "big" /\ x.e = 1 /\ x.n = 0 -> F64Near(1)
      [] x.form = "big" /\ x.e = 1 /\ x.n % 2 = 1 -> F64Big(1, x.n - 1)
      [] OTHER -> x

\* x >= t in f64, for a small integer t
f64_ge(x, t) == x.form # "small" \/ x.n >= t

\* a < b in f64
f64_lt(a, b) ==
    LET rank(x) == CASE x.form = "small" -> 0 [] x.form = "near" -> 1 [] OTHER -> 2
    IN \/ rank(a) < rank(b)
       \/ /\ a.form = b.form
          /\ CASE a.form = "small" -> a.n < b.n
               [] a.form = "near" -> a.n > b.n
               [] OTHER -> a.e < b.e \/ (a.e = b.e /\ a.n < b.n)

\* the sum a + b is one of the forms above without rounding
ExactSum(a, b) ==
    \/ a = F64Small(0)
    \/ b = F64Small(0)
    \/ a.form = "small" /\ b.form = "small"

\* a + b in f64, for an exact sum
f64_add(a, b) ==
    IF a = F64Small(0) THEN b
    ELSE IF b = F64Small(0) THEN a
    ELSE F64Small(a.n + b.n)

\* the dt of a tick: its quanta as an f64, and its length in ms.  None, one to
\* three quanta, and 2^53, 2^53 + 2, 2^53 + 4 and 2^54 quanta (4 s and 8 s)
LoopDts ==
    {[quanta |-> F64Small(n), ms |-> 0] : n \in 0 .. 3}
        \cup {[quanta |-> F64Big(1, n), ms |-> 4000] : n \in 0 .. 2}
        \cup {[quanta |-> F64Big(2, 0), ms |-> 8000]}

\* atmosphere.tick_interval_s of the configuration file, in quanta
LoopTicks == {-1, 0, 1}

\* the commands of a run of SpecLoop
LoopCommands ==
    { [type |-> "MovePawn", dx |-> 1, dy |-> 0],
      [type |-> "ToggleSleep"] }

\* InteriorWorld::step is between `self.atmos_accumulator += dt` and its return
InLoop == last_op.op \in {"step_enter", "sub_step"}

InitLoop ==
    /\ \E tick \in LoopTicks : config = [DefaultConfig EXCEPT !.tick_interval_s = tick]
    /\ interior = [new_test_ship(DefaultConfig) EXCEPT !.atmos_accumulator = F64Small(0)]
    /\ mu = 0
    /\ sim_time = 0
    /\ bodies = <<>>
    /\ next_id = 1
    /\ events = <<>>
    /\ last_op = [op |-> "new"]
    /\ prev = Snapshot
    /\ tick_log = <<>>
    /\ origin = interior
    /\ elapsed = 0
    /\ count = NoneYet
    /\ server = NoServer

\* InteriorWorld::step up to the loop (interior.rs:1116-1123)
StepEnter(dt) ==
    /\ ~InLoop
    /\ count.ticks < MaxLoopSteps
    /\ ExactSum(interior.atmos_accumulator, dt.quanta)
    /\ interior' =
          [update_pawn_needs(
               [process_commands([w |-> interior, log |-> <<>>], config).w
                   EXCEPT !.ship = ship_step(@, dt.ms)],
               dt.ms)
             EXCEPT !.atmos_accumulator = f64_add(@, dt.quanta)]
    /\ last_op' = [op |-> "step_enter", dt |-> dt]
    /\ prev' = Snapshot
    /\ count' = [count EXCEPT !.ticks = @ + 1]
    /\ UNCHANGED <<tick_log, origin, elapsed>>
    /\ WorldIdle

\* step_atmosphere with a dt of one quantum: every delta is below the
\* resolution of the masses, and each cell is clamped (interior.rs:1073-1078)
step_atmosphere_quantum(ship) ==
    [ship EXCEPT !.tile_atmos = [i \in DOMAIN @ |-> clamp_non_negative(@[i])]]

\* one iteration of the loop (interior.rs:1124-1129); the breath and the damage
\* of one quantum are below the resolution of the masses and of the health
SubStep ==
    /\ InLoop
    /\ count.subs < MaxSubSteps
    /\ config.tick_interval_s > 0
    /\ f64_ge(interior.atmos_accumulator, config.tick_interval_s)
    /\ interior' =
          [apply_pawn_atmos_effects(
               [interior EXCEPT !.ship = step_atmosphere_quantum(@)], 0)
             EXCEPT !.atmos_accumulator = f64_sub_one(@)]
    /\ last_op' = [op |-> "sub_step", dt |-> last_op.dt]
    /\ prev' = Snapshot
    /\ count' = [count EXCEPT !.subs = @ + 1]
    /\ UNCHANGED <<tick_log, origin, elapsed>>
    /\ WorldIdle

\* the return of InteriorWorld::step (interior.rs:1121-1123, 1130)
StepReturn ==
    /\ InLoop
    /\ \/ config.tick_interval_s <= 0
       \/ ~f64_ge(interior.atmos_accumulator, config.tick_interval_s)
    /\ last_op' = [op |-> "step_return", dt |-> last_op.dt]
    /\ UNCHANGED <<interior, prev, count, tick_log, origin, elapsed>>
    /\ WorldIdle

NextLoop ==
    \/ \E command \in LoopCommands : ~InLoop /\ QueueCommand(command)
    \/ \E dt \in LoopDts : StepEnter(dt)
    \/ SubStep
    \/ StepReturn

SpecLoop == InitLoop /\ [][NextLoop]_vars

\* C24: InteriorWorld::step terminates for every finite dt >= 0 and every tick
\* interval: no sub-step runs when the interval is zero or negative, and every
\* sub-step leaves atmos_accumulator smaller than it found it, so that the
\* loop condition fails after finitely many sub-steps
C24_StepTerminates ==
    last_op.op = "sub_step" =>
        /\ config.tick_interval_s > 0
        /\ f64_lt(interior.atmos_accumulator, prev.interior.atmos_accumulator)

\* the part of C24 that the code keeps: below 2^53 tick intervals every
\* sub-step takes one interval off the accumulator, and no sub-step runs on
\* an interval that is zero or negative
SubStepsCountDown ==
    (last_op.op = "sub_step" /\ prev.interior.atmos_accumulator.form # "big") =>
        /\ config.tick_interval_s > 0
        /\ f64_lt(interior.atmos_accumulator, prev.interior.atmos_accumulator)

(***************************************************************************)
(* SpecServer: run_tcp_server of main.rs.  One reader thread per client    *)
(* and the tick loop of the main thread run interleaved; the accept thread *)
(* has accepted the clients of the run before the loop starts.             *)
(* The readers parse the lines of their client and send the commands into  *)
(* one mpsc channel; the tick loop alone owns the World: it drains the     *)
(* channel, steps the world and builds the snapshot.  The writer threads   *)
(* only copy snapshots to the sockets and are left out, and no client      *)
(* disconnects.  World::step is taken in two halves (the orbits, then the  *)
(* interior), so that the other threads also run while a tick is under way.*)
(***************************************************************************)
\* the lines the clients send in a run
MaxLines == 3

\* the ticks of the tick loop in a run
MaxServerTicks == 1

\* the clients that connect
Clients == {1, 2}

DEFAULT_TIME_SCALE == 1

MAX_TIME_SCALE == 10000

\* one second, in milliseconds
MAX_SIM_DT == 1000

\* Option
Absent == [some |-> FALSE]

Some(v) == [some |-> TRUE, v |-> v]

\* a line of text by what parse_command looks at: whether the trimmed line
\* starts with a brace, the keywords it contains, and the number after each key
BlankLine == [brace |-> TRUE, words |-> {}, dx |-> Absent, dy |-> Absent,
              x |-> Absent, y |-> Absent, time_scale |-> Absent]

\* a sleep toggle, a time scale below the range, and a move with no "dy" that
\* also holds the word toggle_sleep
ServerLines ==
    { [BlankLine EXCEPT !.words = {"toggle_sleep"}],
      [BlankLine EXCEPT !.words = {"set_time_scale"}, !.time_scale = Some(-5)],
      [BlankLine EXCEPT !.words = {"move_pawn", "toggle_sleep"}, !.dx = Some(1)] }

\* extract_number::<i32> and ::<f64>
extract_number(line, key) == line[key]

\* extract_number::<u32>: a negative number does not parse
extract_unsigned(line, key) ==
    IF line[key].some /\ line[key].v < 0 THEN Absent ELSE line[key]

clamp_time_scale(value) == Min(Max(value, 0), MAX_TIME_SCALE)

parse_time_scale_command(line) ==
    IF extract_number(line, "time_scale").some
    THEN Some(clamp_time_scale(extract_number(line, "time_scale").v))
    ELSE Absent

parse_command(line) ==
    IF ~line.brace THEN Absent
    ELSE IF "set_time_scale" \in line.words
    THEN IF parse_time_scale_command(line).some
         THEN Some([type |-> "SetTimeScale",
                    scale |-> parse_time_scale_command(line).v])
         ELSE Absent
    ELSE IF "move_pawn" \in line.words
    THEN IF extract_number(line, "dx").some /\ extract_number(line, "dy").some
         THEN Some([type |-> "MovePawn", dx |-> extract_number(line, "dx").v,
                    dy |-> extract_number(line, "dy").v])
         ELSE Absent
    ELSE IF "toggle_sleep" \in line.words
    THEN Some([type |-> "ToggleSleep"])
    ELSE IF "interact_at" \in line.words
    THEN IF extract_unsigned(line, "x").some /\ extract_unsigned(line, "y").some
         THEN Some([type |-> "InteractAt", x |-> extract_unsigned(line, "x").v,
                    y |-> extract_unsigned(line, "y").v])
         ELSE Absent
    ELSE Absent

\* a receiver that takes the newest message first
TryRecvLast(chan) ==
    IF chan = <<>> THEN [some |-> FALSE, rest |-> chan]
    ELSE [some |-> TRUE, v |-> chan[Len(chan)],
          rest |-> SubSeq(chan, 1, Len(chan) - 1)]

\* Receiver::try_recv: the oldest message of the channel, if there is one
try_recv(chan) ==
    IF chan = <<>> THEN [some |-> FALSE, rest |-> chan]
    ELSE [some |-> TRUE, v |-> Head(chan), rest |-> Tail(chan)]

\* apply_command: the time scale and the interior after the command
apply_command(iw, command, time_scale) ==
    IF command.type = "SetTimeScale"
    THEN [interior |-> iw, time_scale |-> command.scale]
    ELSE [interior |-> queue_command(iw, command), time_scale |-> time_scale]

\* tick_world: the simulated time of the tick
sim_dt(time_scale, real_dt) == Max(Min(time_scale * real_dt, MAX_SIM_DT), 0)

\* the wall time between two ticks, in the units of the orbits of InitialBodies
RealDts == {2}

\* the state of run_tcp_server before its loop; build_initial_world has added
\* the bodies with their ids and stepped the world by zero, and accept_clients
\* has started the reader thread of each client and sent the tick loop its
\* snapshot sender
InitServer ==
    /\ config = DefaultConfig
    /\ interior = interior_step_logged(new_test_ship(DefaultConfig), 0,
                                       DefaultConfig).w
    /\ mu = WorldMu
    /\ sim_time = 0
    /\ bodies = cull_despawned_bodies(
                    Propagate(AddAll(<<>>, InitialBodies, 1, WorldMu, 0), WorldMu, 0))
    /\ next_id = 1
    /\ events = <<>>
    /\ last_op = [op |-> "new", actor |-> "tick_loop"]
    /\ prev = Snapshot
    /\ tick_log = <<>>
    /\ origin = interior
    /\ elapsed = 0
    /\ count = NoneYet
    /\ server = [pc |-> "register",
                 connected |-> Clients,
                 new_clients |-> <<1, 2>>,
                 clients |-> <<>>,
                 wire |-> [c \in Clients |-> <<>>],
                 sent |-> [c \in Clients |-> <<>>],
                 chan |-> <<>>,
                 handed |-> <<>>,
                 time_scale |-> DEFAULT_TIME_SCALE,
                 dt |-> 0,
                 in_tick |-> FALSE,
                 completed |-> Snapshot,
                 snapshot |-> Absent,
                 delivered |-> [c \in Clients |-> 0]]

\* the threads other than the tick loop leave the world alone
ServerIdle ==
    /\ prev' = Snapshot
    /\ UNCHANGED <<config, interior, mu, sim_time, bodies, next_id, events,
                   tick_log, origin, elapsed, count>>

LinesSent == Len(server.sent[1]) + Len(server.sent[2])

\* a client writes a line to its socket
ClientSend(c, line) ==
    /\ c \in server.connected
    /\ LinesSent < MaxLines
    /\ server' = [server EXCEPT !.wire[c] = Append(@, line),
                                !.sent[c] = Append(@, line)]
    /\ last_op' = [op |-> "send", actor |-> "client", client |-> c]
    /\ ServerIdle

\* one turn of the loop of a reader thread: the next line of the socket is
\* parsed and, when it is a command, sent into the channel
ReadLine(c) ==
    /\ c \in server.connected
    /\ server.wire[c] # <<>>
    /\ server' = [server EXCEPT
                     !.wire[c] = Tail(@),
                     !.chan = IF parse_command(Head(server.wire[c])).some
                              THEN Append(@, [client |-> c,
                                              command |-> parse_command(
                                                  Head(server.wire[c])).v])
                              ELSE @]
    /\ last_op' = [op |-> "read_line", actor |-> "reader", client |-> c]
    /\ ServerIdle

\* the tick loop takes the new clients
RegisterClients ==
    /\ server.pc = "register"
    /\ server' = [server EXCEPT !.clients = @ \o server.new_clients,
                                !.new_clients = <<>>,
                                !.pc = "drain"]
    /\ last_op' = [op |-> "register", actor |-> "tick_loop"]
    /\ ServerIdle

\* one turn of the drain loop: try_recv yields a command and apply_command
\* applies it
DrainOne ==
    /\ server.pc = "drain"
    /\ try_recv(server.chan).some
    /\ interior' = apply_command(interior, try_recv(server.chan).v.command,
                                 server.time_scale).interior
    /\ server' = [server EXCEPT
                     !.chan = try_recv(server.chan).rest,
                     !.handed = Append(@, try_recv(server.chan).v),
                     !.time_scale = apply_command(interior,
                                        try_recv(server.chan).v.command,
                                        server.time_scale).time_scale]
    /\ last_op' = [op |-> "apply_command", actor |-> "tick_loop"]
    /\ prev' = Snapshot
    /\ UNCHANGED <<config, mu, sim_time, bodies, next_id, events, tick_log,
                   origin, elapsed, count>>

\* try_recv finds the channel empty: the drain loop ends
DrainEnd ==
    /\ server.pc = "drain"
    /\ ~try_recv(server.chan).some
    /\ server' = [server EXCEPT !.pc = "tick"]
    /\ last_op' = [op |-> "drain_end", actor |-> "tick_loop"]
    /\ ServerIdle

\* tick_world, first half of World::step: the clock and the bodies
StepOrbits(real_dt) ==
    /\ server.pc = "tick"
    /\ count.ticks < MaxServerTicks
    /\ sim_time' = sim_time + sim_dt(server.time_scale, real_dt)
    /\ bodies' = cull_despawned_bodies(
                     Propagate(bodies, mu,
                               sim_time + sim_dt(server.time_scale, real_dt)))
    /\ server' = [server EXCEPT !.pc = "in_step", !.in_tick = TRUE,
                                !.dt = sim_dt(server.time_scale, real_dt)]
    /\ last_op' = [op |-> "step_orbits", actor |-> "tick_loop",
                   dt |-> sim_dt(server.time_scale, real_dt)]
    /\ prev' = Snapshot
    /\ count' = [count EXCEPT !.ticks = @ + 1]
    /\ UNCHANGED <<config, interior, mu, next_id, events, tick_log, origin,
                   elapsed>>

\* second half of World::step: the interior; World::step returns
StepInterior ==
    /\ server.pc = "in_step"
    /\ LET st == interior_step_logged(interior, server.dt, config)
       IN /\ interior' = st.w
          /\ tick_log' = st.log
          /\ server' = [server EXCEPT
                           !.pc = "stepped",
                           !.in_tick = FALSE,
                           !.completed = [Snapshot EXCEPT !.interior = st.w]]
    /\ last_op' = [op |-> "step_interior", actor |-> "tick_loop",
                   dt |-> server.dt]
    /\ prev' = Snapshot
    /\ UNCHANGED <<config, mu, sim_time, bodies, next_id, events, origin, elapsed,
                   count>>

\* build_snapshot_json: the snapshot is a copy of the world as it is now
BuildSnapshot ==
    /\ server.pc = "stepped"
    /\ server' = [server EXCEPT
                     !.pc = "built",
                     !.snapshot = Some([world |-> Snapshot,
                                        in_tick |-> server.in_tick,
                                        handed |-> Len(server.handed),
                                        tick |-> count.ticks])]
    /\ last_op' = [op |-> "build_snapshot", actor |-> "tick_loop"]
    /\ ServerIdle

\* the snapshot goes to every registered client; the loop sleeps and starts over
SendSnapshot ==
    /\ server.pc = "built"
    /\ server' = [server EXCEPT
                     !.pc = "register",
                     !.delivered = [c \in Clients |->
                                       IF \E i \in 1..Len(server.clients) :
                                              server.clients[i] = c
                                       THEN server.snapshot.v.tick
                                       ELSE @[c]]]
    /\ last_op' = [op |-> "send_snapshot", actor |-> "tick_loop"]
    /\ ServerIdle

NextServer ==
    \/ \E c \in Clients, line \in ServerLines : ClientSend(c, line)
    \/ \E c \in Clients : ReadLine(c)
    \/ RegisterClients
    \/ DrainOne
    \/ DrainEnd
    \/ \E real_dt \in RealDts : StepOrbits(real_dt)
    \/ StepInterior
    \/ BuildSnapshot
    \/ SendSnapshot

SpecServer == InitServer /\ [][NextServer]_vars

\* the messages of one client, in their order
RECURSIVE OfClient(_, _)
OfClient(messages, c) ==
    IF messages = <<>> THEN <<>>
    ELSE IF Head(messages).client = c
    THEN <<Head(messages).command>> \o OfClient(Tail(messages), c)
    ELSE OfClient(Tail(messages), c)

\* the commands that parse_command finds in the lines, in their order
RECURSIVE Parsed(_)
Parsed(lines) ==
    IF lines = <<>> THEN <<>>
    ELSE IF parse_command(Head(lines)).some
    THEN <<parse_command(Head(lines)).v>> \o Parsed(Tail(lines))
    ELSE Parsed(Tail(lines))

\* C26: in TCP server mode, with the reader threads of several clients
\* running beside the tick loop, the commands of a client that apply_command
\* has received, followed by those waiting in the channel and those of the
\* lines not yet read, are exactly the successfully parsed commands of the
\* lines the client sent, in the order sent (none handed twice, none lost, none
\* out of order); the world changes only in steps of the tick-loop thread;
\* and a snapshot is built outside a tick, of the world as the last World::step
\* left it.
C26_SerializedCommands ==
    /\ \A c \in Clients :
           OfClient(server.handed, c) \o OfClient(server.chan, c)
               \o Parsed(server.wire[c]) = Parsed(server.sent[c])
    /\ (Snapshot # prev) => (last_op.actor = "tick_loop")
    /\ (last_op.op = "build_snapshot") =>
           /\ ~server.snapshot.v.in_tick
           /\ server.snapshot.v.world = server.completed
           /\ server.snapshot.v.tick = count.ticks

\* a client has had two different commands applied in the order it sent them,
\* the reader of the other client has read and dropped a line that is no
\* command, and a snapshot was built after the tick that followed
C26_Witness ==
    /\ last_op.op = "build_snapshot"
    /\ server.snapshot.v.handed = 2
    /\ \E c, d \in Clients :
           /\ c # d
           /\ Len(OfClient(server.handed, c)) = 2
           /\ OfClient(server.handed, c)[1] # OfClient(server.handed, c)[2]
           /\ OfClient(server.handed, c) = Parsed(server.sent[c])
           /\ Len(server.sent[d]) = 1
           /\ server.wire[d] = <<>>
           /\ Parsed(server.sent[d]) = <<>>

(***************************************************************************)
(* SpecAccum: the accumulator arithmetic of InteriorWorld::step            *)
(* (interior.rs:1115-1130) with atmos_accumulator and dt as the f64 they   *)
(* are.  A time is written [k, r] and stands for k * 2^53 + r units of     *)
(* 2^-53 s, with r small: k seconds and r units.  f64::EPSILON is 2 units. *)
(* An f64 holds every whole number of units below 2^53, every second one   *)
(* from 2^53 to 2^54 and every fourth one from 2^54 to 2^55.  In the units *)
(* of the rest of the model a unit is 0 ms and a second is 1000 ms.        *)
(***************************************************************************)
\* InteriorWorld::step calls in one run
MaxAccumSteps == 3

Time(k, r) == [k |-> k, r |-> r]

\* the distance of the f64 values around k * 2^53 + r
Spacing(k, r) ==
    IF k = 0 \/ (k = 1 /\ r < 0) THEN 1
    ELSE IF k = 1 \/ (k = 2 /\ r < 0) THEN 2
    ELSE 4

\* r rounded to the nearest multiple of s, a tie going to the multiple whose
\* mantissa is even (round to nearest, ties to even)
RoundTies(r, s) ==
    IF 2 * (r % s) < s THEN (r \div s) * s
    ELSE IF 2 * (r % s) > s THEN ((r \div s) + 1) * s
    ELSE IF (r \div s) % 2 = 0 THEN (r \div s) * s
    ELSE ((r \div s) + 1) * s

\* the f64 nearest to k * 2^53 + r
f64_round(k, r) == Time(k, RoundTies(r, Spacing(k, r)))

\* every sum is taken as if it needed no rounding
PlusExact(a, b) == Time(a.k + b.k, a.r + b.r)

\* a + b in f64
f64_plus(a, b) == f64_round(a.k + b.k, a.r + b.r)

\* a - b in f64
f64_minus(a, b) == f64_round(a.k - b.k, a.r - b.r)

\* a >= b
f64_at_least(a, b) == a.k > b.k \/ (a.k = b.k /\ a.r >= b.r)

F64_EPSILON == Time(0, 2)

\* atmosphere.tick_interval_s of the configuration file: 2^-53 s, three times
\* that, and one second; all three are f32 values
AccumTicks == {Time(0, 1), Time(0, 3), Time(1, 0)}

\* the dt of the ticks of a run: up to four units where the interval is a few
\* units; nothing, one unit, a second less one unit, and a second, where the
\* interval is a second
AccumDts(tick) ==
    IF tick.k = 0 THEN {Time(0, n) : n \in 0 .. 4}
    ELSE {Time(0, 0), Time(0, 1), Time(1, -1), Time(1, 0)}

\* a time in ms, to the nearest ms
Millis(t) == t.k * 1000

InitAccum ==
    /\ \E tick \in AccumTicks : config = [DefaultConfig EXCEPT !.tick_interval_s = tick]
    /\ interior = [new_test_ship(DefaultConfig) EXCEPT !.atmos_accumulator = Time(0, 0)]
    /\ mu = 0
    /\ sim_time = 0
    /\ bodies = <<>>
    /\ next_id = 1
    /\ events = <<>>
    /\ last_op = [op |-> "new"]
    /\ prev = Snapshot
    /\ tick_log = <<>>
    /\ origin = interior
    /\ elapsed = Time(0, 0)
    /\ count = NoneYet
    /\ server = NoServer

\* InteriorWorld::step up to the loop (interior.rs:1116-1119)
AccumEntered(iw, dt, cfg) ==
    [update_pawn_needs(
         [process_commands([w |-> iw, log |-> <<>>], cfg).w
             EXCEPT !.ship = ship_step(@, Millis(dt))],
         Millis(dt))
       EXCEPT !.atmos_accumulator = f64_plus(@, dt)]

\* one iteration of the loop (interior.rs:1125-1128); with an interval of a few
\* units the deltas, the breath and the damage are below the resolution of the
\* masses and of the health
AccumSubStep(iw, tick) ==
    [apply_pawn_atmos_effects(
         [iw EXCEPT !.ship = IF Millis(tick) = 0 THEN step_atmosphere_quantum(@)
                             ELSE step_atmosphere(@, Millis(tick))],
         Millis(tick))
       EXCEPT !.atmos_accumulator = f64_minus(@, tick)]

\* the guard and the loop (interior.rs:1121-1129), on a pair [w: the world,
\* subs: the sub-steps run]
RECURSIVE AccumLoop(_, _)
AccumLoop(st, tick) ==
    IF f64_at_least(F64_EPSILON, tick) THEN st
    ELSE IF f64_at_least(st.w.atmos_accumulator, tick)
    THEN AccumLoop([w |-> AccumSubStep(st.w, tick), subs |-> st.subs + 1], tick)
    ELSE st

\* InteriorWorld::step
AccumStep(dt) ==
    /\ count.ticks < MaxAccumSteps
    /\ LET st == AccumLoop([w |-> AccumEntered(interior, dt, config), subs |-> 0],
                           config.tick_interval_s)
       IN /\ interior' = st.w
          /\ count' = [count EXCEPT !.ticks = @ + 1, !.subs = @ + st.subs]
    /\ elapsed' = PlusExact(elapsed, dt)
    /\ last_op' = [op |-> "step", dt |-> dt]
    /\ prev' = Snapshot
    /\ UNCHANGED <<tick_log, origin>>
    /\ WorldIdle

NextAccum ==
    \/ \E command \in LoopCommands : QueueCommand(command)
    \/ \E dt \in AccumDts(config.tick_interval_s) : AccumStep(dt)

SpecAccum == InitAccum /\ [][NextAccum]_vars

\* floor(total / tick) for the totals and intervals of a run
WholeIntervals(total, tick) ==
    IF tick.k = 0 THEN total.r \div tick.r
    ELSE total.k + (IF total.r < 0 THEN -1 ELSE 0)

\* C31: with a positive atmosphere tick interval and dt >= 0, after every
\* InteriorWorld::step the accumulator is at least zero and below the tick
\* interval, and the sub-steps run over all the ticks so far number
\* floor(total elapsed dt / tick interval)
C31_AccumulatorPattern ==
    (last_op.op = "step" /\ f64_at_least(config.tick_interval_s, Time(0, 1))) =>
        /\ f64_at_least(interior.atmos_accumulator, Time(0, 0))
        /\ ~f64_at_least(interior.atmos_accumulator, config.tick_interval_s)
        /\ count.subs = WholeIntervals(elapsed, config.tick_interval_s)

\* the part of C31 that the code keeps: with an interval above f64::EPSILON and
\* a total below 2^53 units, where no sum is rounded
AccumulatorWhileExact ==
    (/\ last_op.op = "step"
     /\ ~f64_at_least(F64_EPSILON, config.tick_interval_s)
     /\ elapsed.k = 0) =>
        /\ f64_at_least(interior.atmos_accumulator, Time(0, 0))
        /\ ~f64_at_least(interior.atmos_accumulator, config.tick_interval_s)
        /\ count.subs = WholeIntervals(elapsed, config.tick_interval_s)

\* C31 on the intervals above f64::EPSILON only
AccumulatorAboveEpsilon ==
    (last_op.op = "step" /\ ~f64_at_least(F64_EPSILON, config.tick_interval_s)) =>
        /\ f64_at_least(interior.atmos_accumulator, Time(0, 0))
        /\ ~f64_at_least(interior.atmos_accumulator, config.tick_interval_s)
        /\ count.subs = WholeIntervals(elapsed, config.tick_interval_s)

(***************************************************************************)
(* SpecDevices: the interior under queued commands and ticks, started from *)
(* ships whose devices were set up by assignment (the fields of Device and *)
(* of its payloads are public): the dispenser moved and resized, another   *)
(* gas, devices that feed power or are offline, stores nearly used up      *)
(***************************************************************************)
\* the dispenser (device 3 of the test layout) with another footprint
DispenserAt(iw, x, y, w, h) ==
    [iw EXCEPT !.ship.devices[3].x = x, !.ship.devices[3].y = y,
               !.ship.devices[3].w = w, !.ship.devices[3].h = h]

\* the dispenser with another gas
Dispensing(iw, gas) == [iw EXCEPT !.ship.devices[3].data.gas_type = gas]

\* the ships a run of SpecDevices starts with
DeviceShips ==
    LET fresh == new_test_ship(DefaultConfig)
    IN { fresh,
         \* a xenon dispenser, a transponder that feeds 5 kW, the nav station off
         [Dispensing(fresh, "Xenon") EXCEPT !.ship.devices[5].power_kw = -100,
                                            !.ship.devices[6].online = FALSE],
         \* three tiles wide above the bottom wall: only the door in front of
         \* its middle tile is breathable
         Dispensing(DispenserAt(fresh, 5, 6, 3, 1), "N2"),
         \* two by two in the left wall, walls in front: the first breathable
         \* tile inside is (1, 5); the reactor switched off
         [Dispensing(DispenserAt(fresh, 0, 5, 2, 2), "CO2") EXCEPT
             !.ship.devices[1].online = FALSE,
             !.ship.devices[1].data.online = FALSE],
         \* in the bottom row, nothing in front: the door tile inside
         DispenserAt(fresh, 5, 7, 3, 1),
         \* in the bottom left corner, walls only; the tank nearly out of O2,
         \* the reactor nearly out of fuel, one unit of food left, a hungry pawn
         [DispenserAt(fresh, 0, 7, 2, 1) EXCEPT
             !.ship.devices[2].data.o2_kg = 30000,
             !.ship.devices[1].data.fuel_kg = 1000,
             !.ship.devices[10].data.food_units = 1,
             !.pawn.needs.hunger = NeedOne \div 2] }

\* the commands of a run of SpecDevices: interactions with the reactor, the
\* food generator, the door (or the dispenser that covers it) and the light
DeviceCommands ==
    { [type |-> "InteractAt", x |-> 5, y |-> 2],
      [type |-> "InteractAt", x |-> 4, y |-> 2],
      [type |-> "InteractAt", x |-> 6, y |-> 7],
      [type |-> "InteractAt", x |-> 2, y |-> 5] }

InitDevices ==
    /\ config = DefaultConfig
    /\ interior \in DeviceShips
    /\ mu = 0
    /\ sim_time = 0
    /\ bodies = <<>>
    /\ next_id = 1
    /\ events = <<>>
    /\ last_op = [op |-> "new"]
    /\ prev = Snapshot
    /\ tick_log = <<>>
    /\ origin = interior
    /\ elapsed = 0
    /\ count = NoneYet
    /\ server = NoServer

NextDevices ==
    \/ \E command \in DeviceCommands : QueueCommand(command)
    \/ \E dt \in Dts : Step(dt)

SpecDevices == InitDevices /\ [][NextDevices]_vars

\* the breathable tiles of the row just below the footprint of a device, within
\* its columns
FrontTiles(ship, device) ==
    {i \in DOMAIN ship.tiles :
        /\ i \div ship.width = device.y + device.h
        /\ i % ship.width >= device.x /\ i % ship.width < device.x + device.w
        /\ ship.tiles[i] \in {"Floor", "Bed", "DoorOpen", "DoorClosed"}}

\* the breathable tiles inside the footprint of a device
FootprintTiles(ship, device) ==
    {i \in DOMAIN ship.tiles :
        /\ i \div ship.width >= device.y /\ i \div ship.width < device.y + device.h
        /\ i % ship.width >= device.x /\ i % ship.width < device.x + device.w
        /\ ship.tiles[i] \in {"Floor", "Bed", "DoorOpen", "DoorClosed"}}

\* the tile a dispenser injects into: the leftmost of the front tiles, else the
\* first of the footprint tiles in row-major order; -1 when there is none
OutputTile(ship, device) ==
    IF FrontTiles(ship, device) # {} THEN SetMin(FrontTiles(ship, device))
    ELSE IF FootprintTiles(ship, device) # {} THEN SetMin(FootprintTiles(ship, device))
    ELSE -1

\* what the tanks of the ship lost of a gas between two states
Withdrawn(before, after, gas) ==
    LET tank == SetMin(DevicesOfKind(before, "Tank"))
    IN TankGas(before.devices[tank].data, gas) - TankGas(after.devices[tank].data, gas)

\* the state of the ship before and after the device pass of the last tick
PassBefore == WorldBefore(Len(prev.interior.command_queue) + 1).ship

PassAfter == tick_log[Len(prev.interior.command_queue) + 1].w.ship

\* C32: in the device pass of a tick, the O2, N2 or CO2 that a dispenser
\* withdrew from the tank goes, all of it, into one tile: the leftmost
\* breathable tile of the row just below the footprint within its columns, or,
\* when that row has none, the first breathable tile inside the footprint in
\* row-major order; no other tile's gas changes
C32_InjectionTarget ==
    last_op.op = "step" =>
        \A i \in DevicesOfKind(PassBefore, "Dispenser") :
            LET gas == PassBefore.devices[i].data.gas_type
                target == OutputTile(PassBefore, PassBefore.devices[i])
            IN (gas # "Xenon" /\ target # -1) =>
                  PassAfter.tile_atmos =
                     [PassBefore.tile_atmos EXCEPT
                        ![target] = add_gas(@, gas, Withdrawn(PassBefore, PassAfter, gas))]

\* a tick whose device pass put N2 into the door tile in front of the middle of
\* a three-tile footprint, the tiles in front of its ends being walls
C32_Witness ==
    /\ last_op.op = "step"
    /\ \E i \in DevicesOfKind(PassBefore, "Dispenser") :
          /\ PassBefore.devices[i].w = 3
          /\ OutputTile(PassBefore, PassBefore.devices[i])
                = idx(PassBefore.devices[i].x + 1, PassBefore.devices[i].y + 1,
                      PassBefore.width)
          /\ Withdrawn(PassBefore, PassAfter, "N2") > 0
          /\ PassAfter.tile_atmos[OutputTile(PassBefore, PassBefore.devices[i])].n2_kg
                > PassBefore.tile_atmos[OutputTile(PassBefore, PassBefore.devices[i])].n2_kg

\* a tick whose device pass put gas into a tile inside the footprint, the row
\* in front holding no breathable tile
C32_WitnessInside ==
    /\ last_op.op = "step"
    /\ \E i \in DevicesOfKind(PassBefore, "Dispenser") :
          /\ FrontTiles(PassBefore, PassBefore.devices[i]) = {}
          /\ OutputTile(PassBefore, PassBefore.devices[i]) # -1
          /\ PassAfter.tile_atmos # PassBefore.tile_atmos

\* C33: in the device pass of a tick, a running dispenser of Xenon, or one with
\* no breathable tile in front of or inside its footprint, takes
\* min(rate * dt, available) of its gas from the tank and leaves every tile's
\* atmosphere as it was: what was withdrawn is not put back
C33_NeverRefunded ==
    last_op.op = "step" =>
        \A i \in DevicesOfKind(PassBefore, "Dispenser") :
            LET device == PassBefore.devices[i]
                gas == device.data.gas_type
                tank == PassBefore.devices[SetMin(DevicesOfKind(PassBefore, "Tank"))].data
            IN (/\ device.online /\ device.data.active
                /\ \/ gas = "Xenon"
                   \/ OutputTile(PassBefore, device) = -1)
               => /\ Withdrawn(PassBefore, PassAfter, gas)
                       = Min(device.data.rate_kg_per_s * last_op.dt, TankGas(tank, gas))
                  /\ PassAfter.tile_atmos = PassBefore.tile_atmos

\* a tick in which a dispenser with only walls in front of and inside its
\* footprint took the last O2 of the tank, less than rate * dt
C33_Witness ==
    /\ last_op.op = "step"
    /\ \E i \in DevicesOfKind(PassBefore, "Dispenser") :
          /\ PassBefore.devices[i].data.gas_type = "O2"
          /\ OutputTile(PassBefore, PassBefore.devices[i]) = -1
          /\ Withdrawn(PassBefore, PassAfter, "O2") > 0
          /\ Withdrawn(PassBefore, PassAfter, "O2")
                < PassBefore.devices[i].data.rate_kg_per_s * last_op.dt
          /\ TankGas(PassAfter.devices[SetMin(DevicesOfKind(PassAfter, "Tank"))].data, "O2") = 0

\* a tick in which a dispenser of Xenon, breathable tiles in front of it, took
\* Xenon from the tank
C33_WitnessXenon ==
    /\ last_op.op = "step"
    /\ \E i \in DevicesOfKind(PassBefore, "Dispenser") :
          /\ PassBefore.devices[i].data.gas_type = "Xenon"
          /\ OutputTile(PassBefore, PassBefore.devices[i]) # -1
          /\ Withdrawn(PassBefore, PassAfter, "Xenon") > 0

\* what the devices 1 .. n of a ship draw: the power_kw of those that are
\* online with a positive power_kw
RECURSIVE Drawn(_, _)
Drawn(ship, n) ==
    IF n = 0 THEN 0
    ELSE Drawn(ship, n - 1)
         + (IF ship.devices[n].online /\ ship.devices[n].power_kw > 0
            THEN ship.devices[n].power_kw ELSE 0)

\* what the devices 1 .. n of a ship feed: the magnitude of the power_kw of
\* those that are online with a negative power_kw
RECURSIVE Fed(_, _)
Fed(ship, n) ==
    IF n = 0 THEN 0
    ELSE Fed(ship, n - 1)
         + (IF ship.devices[n].online /\ ship.devices[n].power_kw < 0
            THEN 0 - ship.devices[n].power_kw ELSE 0)

\* the rated output of the reactors among the devices 1 .. n that are online
\* and hold fuel
RECURSIVE Rated(_, _)
Rated(ship, n) ==
    IF n = 0 THEN 0
    ELSE Rated(ship, n - 1)
         + (IF /\ ship.devices[n].data.kind = "Reactor"
               /\ ship.devices[n].data.online
               /\ ship.devices[n].data.fuel_kg > 0
            THEN ship.devices[n].data.power_output_kw ELSE 0)

\* C34: after the device pass of a tick, total_consumption_kw is the sum of
\* power_kw over the devices online with a positive power_kw,
\* total_production_kw is the sum of the magnitudes of power_kw over the devices
\* online with a negative power_kw plus the rated output of every reactor that
\* was online with fuel left when the tick began, net_kw is production minus
\* consumption, whatever the totals of the tick before were, and the pass
\* leaves the online flag of every device as it was
C34_PowerTotals ==
    last_op.op = "step" =>
        LET n == Len(PassBefore.devices)
        IN /\ PassAfter.power.total_consumption_kw = Drawn(PassBefore, n)
           /\ PassAfter.power.total_production_kw
                 = Fed(PassBefore, n) + Rated(PassBefore, n)
           /\ PassAfter.power.net_kw
                 = PassAfter.power.total_production_kw
                      - PassAfter.power.total_consumption_kw
           /\ \A i \in 1 .. n : PassAfter.devices[i].online = PassBefore.devices[i].online

\* a tick that began with the totals of an earlier tick and ended with a
\* negative net_kw, one device feeding power, one device offline and the reactor
\* switched off
C34_Witness ==
    /\ last_op.op = "step"
    /\ PassBefore.power.total_production_kw > 0
    /\ PassBefore.power.total_consumption_kw > 0
    /\ PassAfter.power.net_kw < 0
    /\ PassAfter.power.total_production_kw > 0
    /\ PassAfter.power.total_production_kw # PassBefore.power.total_production_kw
    /\ \E i \in DOMAIN PassBefore.devices :
          PassBefore.devices[i].online /\ PassBefore.devices[i].power_kw < 0
    /\ \E i \in DOMAIN PassBefore.devices :
          ~PassBefore.devices[i].online /\ PassBefore.devices[i].power_kw > 0

\* the index of the device an InteractAt at (x, y) acts on: the first one whose
\* footprint holds the point; 0 when there is none
Touched(ship, x, y) ==
    LET hits == {j \in DOMAIN ship.devices :
                    /\ x >= ship.devices[j].x /\ x < ship.devices[j].x + ship.devices[j].w
                    /\ y >= ship.devices[j].y /\ y < ship.devices[j].y + ship.devices[j].h}
    IN IF hits = {} THEN 0 ELSE SetMin(hits)

\* the food of every food generator of a ship, by device index
FoodOf(ship) ==
    [j \in DevicesOfKind(ship, "FoodGenerator") |-> ship.devices[j].data.food_units]

\* C36: an InteractAt on a food generator that holds food takes
\* min(food_units, 1) units from it and lowers the pawn's hunger by 0.2, not
\* below zero, leaving the rest of the world alone; on a food generator with no
\* food it changes nothing; food_units is never negative and no step of the
\* program raises it
C36_FoodGenerator ==
    /\ \A i \in DOMAIN tick_log :
          LET entry == tick_log[i]
              before == WorldBefore(i)
              j == Touched(before.ship, entry.command.x, entry.command.y)
          IN (/\ entry.ev = "command" /\ entry.command.type = "InteractAt"
              /\ j # 0 /\ before.ship.devices[j].data.kind = "FoodGenerator")
             => LET food == before.ship.devices[j].data.food_units
                IN IF food > 0
                   THEN Unqueued(entry.w) =
                           Unqueued([before EXCEPT
                              !.ship.devices[j].data.food_units =
                                  food - (IF food < FoodOne THEN food ELSE FoodOne),
                              !.pawn.needs.hunger =
                                  IF @ > FoodHungerRelief THEN @ - FoodHungerRelief ELSE 0])
                   ELSE Unqueued(entry.w) = Unqueued(before)
    /\ \A j \in DOMAIN FoodOf(interior.ship) :
          /\ FoodOf(interior.ship)[j] >= 0
          /\ FoodOf(interior.ship)[j] <= FoodOf(prev.interior.ship)[j]

\* a tick with two InteractAt on a food generator holding half a unit: the
\* first took the half unit and fed a pawn whose hunger was above 0.2, the
\* second found no food and changed nothing
C36_Witness ==
    /\ last_op.op = "step"
    /\ Len(tick_log) >= 2
    /\ tick_log[1].ev = "command" /\ tick_log[2].ev = "command"
    /\ tick_log[1].command.type = "InteractAt"
    /\ tick_log[2].command = tick_log[1].command
    /\ LET j == Touched(prev.interior.ship, tick_log[1].command.x, tick_log[1].command.y)
       IN /\ j # 0
          /\ prev.interior.ship.devices[j].data.kind = "FoodGenerator"
          /\ prev.interior.ship.devices[j].data.food_units \in 1 .. FoodOne - 1
          /\ prev.interior.pawn.needs.hunger > FoodHungerRelief
          /\ tick_log[1].w.ship.devices[j].data.food_units = 0
          /\ tick_log[1].w.pawn.needs.hunger
                = prev.interior.pawn.needs.hunger - FoodHungerRelief
          /\ Unqueued(tick_log[2].w) = Unqueued(tick_log[1].w)

\* an InteractAt on a food generator holding more than a unit, the pawn's
\* hunger below 0.2: one unit taken, the hunger at zero
C36_WitnessFloor ==
    /\ last_op.op = "step"
    /\ \E i \in DOMAIN tick_log :
          LET j == IF tick_log[i].ev = "command" /\ tick_log[i].command.type = "InteractAt"
                   THEN Touched(WorldBefore(i).ship, tick_log[i].command.x,
                                tick_log[i].command.y)
                   ELSE 0
          IN /\ j # 0
             /\ WorldBefore(i).ship.devices[j].data.kind = "FoodGenerator"
             /\ WorldBefore(i).ship.devices[j].data.food_units > FoodOne
             /\ WorldBefore(i).pawn.needs.hunger \in 1 .. FoodHungerRelief - 1
             /\ tick_log[i].w.pawn.needs.hunger = 0

\* C40: in every state reached by ticks and InteractAt commands, the online
\* flag of each reactor and of each light equals the online flag of its payload,
\* also after a reactor ran out of fuel and shut itself off
C40_OnlineFlagsAgree ==
    \A i \in DOMAIN interior.ship.devices :
        interior.ship.devices[i].data.kind \in {"Reactor", "Light"}
            => interior.ship.devices[i].online = interior.ship.devices[i].data.online

\* what the program keeps: the two flags of a light agree, and those of a
\* reactor agree unless its payload is offline with no fuel left
OnlineFlagsAgreeWithFuel ==
    \A i \in DOMAIN interior.ship.devices :
        LET device == interior.ship.devices[i]
        IN /\ device.data.kind = "Light" => device.online = device.data.online
           /\ device.data.kind = "Reactor" =>
                 \/ device.online = device.data.online
                 \/ device.online /\ ~device.data.online /\ device.data.fuel_kg = 0

(***************************************************************************)
(* SpecWalk: the pawn of the test ship under queued commands and ticks:    *)
(* steps onto the bed and back, one long step onto the open door, sleep    *)
(* toggles, and interactions with the door and the bed                     *)
(***************************************************************************)
\* commands queued in one run
MaxWalkCmds == 3

\* ticks in one run
MaxWalkTicks == 2

WalkCommands ==
    { [type |-> "MovePawn", dx |-> 0, dy |-> -1],
      [type |-> "MovePawn", dx |-> 0, dy |-> 1],
      [type |-> "MovePawn", dx |-> 4, dy |-> 4],
      [type |-> "ToggleSleep"],
      [type |-> "InteractAt", x |-> 6, y |-> 7],
      [type |-> "InteractAt", x |-> 2, y |-> 2] }

\* the dt of a tick of the walk, in ms
WalkDts == {250}

InitWalk ==
    /\ config = DefaultConfig
    /\ interior = new_test_ship(DefaultConfig)
    /\ mu = 0
    /\ sim_time = 0
    /\ bodies = <<>>
    /\ next_id = 1
    /\ events = <<>>
    /\ last_op = [op |-> "new"]
    /\ prev = Snapshot
    /\ tick_log = <<>>
    /\ origin = interior
    /\ elapsed = 0
    /\ count = NoneYet
    /\ server = NoServer

\* InteriorWorld::queue_command
WalkCommand(command) ==
    /\ count.cmds < MaxWalkCmds
    /\ interior' = queue_command(interior, command)
    /\ last_op' = [op |-> "queue_command", command |-> command]
    /\ prev' = Snapshot
    /\ tick_log' = <<>>
    /\ count' = [count EXCEPT !.cmds = @ + 1]
    /\ UNCHANGED <<origin, elapsed>>
    /\ WorldIdle

\* InteriorWorld::step
WalkStep(dt) ==
    /\ count.ticks < MaxWalkTicks
    /\ LET st == interior_step_logged(interior, dt, config)
       IN /\ interior' = st.w
          /\ tick_log' = st.log
          /\ origin' = IF interior.command_queue = <<>> THEN origin ELSE st.w
          /\ elapsed' = IF interior.command_queue = <<>> THEN elapsed + dt ELSE 0
    /\ last_op' = [op |-> "step", dt |-> dt]
    /\ prev' = Snapshot
    /\ count' = [count EXCEPT !.ticks = @ + 1]
    /\ WorldIdle

NextWalk ==
    \/ \E command \in WalkCommands : WalkCommand(command)
    \/ \E dt \in WalkDts : WalkStep(dt)

SpecWalk == InitWalk /\ [][NextWalk]_vars

\* the type of the tile the pawn stands on; "Outside" when it is off the grid
PawnTile ==
    IF /\ interior.pawn.x >= 0 /\ interior.pawn.x < interior.ship.width
       /\ interior.pawn.y >= 0 /\ interior.pawn.y < interior.ship.height
    THEN interior.ship.tiles[interior.pawn.y * interior.ship.width + interior.pawn.x]
    ELSE "Outside"

\* C38: in every state reached by MovePawn, ToggleSleep and InteractAt commands
\* and ticks, the pawn is inside the grid and on a passable tile: Floor, Bed or
\* DoorOpen
C38_PawnOnPassableTile == PawnTile \in {"Floor", "Bed", "DoorOpen"}

\* what the program keeps from the test ship: the pawn is inside the grid, on a
\* tile that is passable or a closed door
PawnOnFloorOrDoor == PawnTile \in {"Floor", "Bed", "DoorOpen", "DoorClosed"}

\* C39: in every state reached by commands and ticks, a pawn whose status is
\* Sleeping stands on a Bed tile: it cannot be moved off the bed without waking
\* first
C39_SleepingOnBed == interior.pawn.status = "Sleeping" => PawnTile = "Bed"

(***************************************************************************)
(* SpecRetile: the test ship under set_tile_type calls, queued commands    *)
(* and ticks: the pawn's tile, the tile the dispenser injects into and a   *)
(* wall tile are retyped while the dispenser runs and the pawn breathes    *)
(***************************************************************************)
\* the tiles handed to set_tile_type: the pawn's, the one in front of the
\* dispenser, and a wall next to the floor
RetileCoords == {<<2, 3>>, <<4, 5>>, <<0, 3>>}

\* the types handed to set_tile_type
RetileTypes == {"Wall", "Empty", "Floor"}

\* the commands of a run of SpecRetile: the door, and a step of the pawn
RetileCommands ==
    { [type |-> "InteractAt", x |-> 6, y |-> 7],
      [type |-> "MovePawn", dx |-> -1, dy |-> 0] }

\* the dt of a tick of SpecRetile, in ms: one atmosphere sub-step
RetileDts == {500}

InitRetile ==
    /\ config = FastFlowConfig
    /\ interior = new_test_ship(FastFlowConfig)
    /\ mu = 0
    /\ sim_time = 0
    /\ bodies = <<>>
    /\ next_id = 1
    /\ events = <<>>
    /\ last_op = [op |-> "new"]
    /\ prev = Snapshot
    /\ tick_log = <<>>
    /\ origin = interior
    /\ elapsed = 0
    /\ count = NoneYet
    /\ server = NoServer

NextRetile ==
    \/ \E c \in RetileCoords : \E new_type \in RetileTypes :
          SetTileType(c[1], c[2], new_type)
    \/ \E command \in RetileCommands : QueueCommand(command)
    \/ \E dt \in RetileDts : Step(dt)

SpecRetile == InitRetile /\ [][NextRetile]_vars

\* C37: in every state reached from the test ship by ticks, commands and
\* set_tile_type calls, every tile of type Wall or Empty holds no O2, no N2 and
\* no CO2
C37_VacuumTilesEmpty ==
    \A i \in DOMAIN interior.ship.tiles :
        interior.ship.tiles[i] \in {"Wall", "Empty"}
            => /\ interior.ship.tile_atmos[i].o2_kg = 0
               /\ interior.ship.tile_atmos[i].n2_kg = 0
               /\ interior.ship.tile_atmos[i].co2_kg = 0

\* after a tick with dt > 0: the pawn stands on a tile that was retyped from
\* Floor to Wall or Empty, next to tiles that hold air, and the tile in front
\* of the running dispenser was retyped too
C37_Witness ==
    /\ last_op.op = "step" /\ last_op.dt > 0
    /\ interior.pawn.x = 2 /\ interior.pawn.y = 3
    /\ origin.ship.tiles[idx(2, 3, interior.ship.width)] = "Floor"
    /\ interior.ship.tiles[idx(2, 3, interior.ship.width)] \in {"Wall", "Empty"}
    /\ interior.ship.tiles[idx(4, 5, interior.ship.width)] \in {"Wall", "Empty"}
    /\ interior.ship.tile_atmos[idx(3, 3, interior.ship.width)].o2_kg > 0
    /\ \E i \in FeedingDispensers(interior.ship) : TRUE

\* C35: after every change of the tile layout through set_tile_type, the door
\* path of InteractAt included, hull_shape is the shape that rebuild_hull_shape
\* derives from the tiles as they are now
C35_HullShapeCurrent ==
    interior.ship.hull_shape = rebuild_hull_shape(interior.ship).hull_shape

\* what the program keeps: no set_tile_type call, command or tick changes
\* hull_shape
HullShapeNeverChanges ==
    interior.ship.hull_shape = prev.interior.ship.hull_shape
====
